---- MODULE Spec2Model ----
(***************************************************************************)
(* State-machine model of the kale-pension-fund contracts.                 *)
(*                                                                         *)
(*   contracts/pension-fund-core/src/lib.rs   PensionFundContract          *)
(*   contracts/risk-manager/src/lib.rs        RiskManagerContract          *)
(*   contracts/rebalancer/src/lib.rs          RebalancerContract           *)
(*                                                                         *)
(* The contracts are separate deployments: each has its own storage and    *)
(* none calls another.                                                     *)
(*                                                                         *)
(* Every public entry point is one action.  An entry point runs as one     *)
(* atomic invocation; a panic! aborts the invocation and none of its       *)
(* storage writes are kept.  Each action records the call it made, the     *)
(* order of its storage writes and token transfers, and the value it       *)
(* returned in lastCall, which is what the properties below observe; the   *)
(* host runs invocations one at a time, so the next one starts only after  *)
(* the result has been handed back (Return).                               *)
(***************************************************************************)
EXTENDS Integers, Sequences, FiniteSets, TLC

VARIABLES
    now,            \* env.ledger().timestamp()
    admin,          \* instance storage ADMIN     (pension fund)
    config,         \* instance storage FUND_CFG
    initialized,    \* whether ADMIN / FUND_CFG / TOT_LOCK have been set
    accounts,       \* persistent storage: Address -> UserAccount (stored entries only)
    total_locked,   \* instance storage TOT_LOCK
    rm_admin,       \* instance storage ADMIN     (risk manager)
    rm_params,      \* instance storage RISK_PRM
    rm_initialized, \* whether ADMIN / RISK_PRM have been set
    rm_store,       \* persistent storage of the risk manager: Symbol -> stored value
    rb_admin,       \* instance storage ADMIN     (rebalancer)
    rb_config,      \* instance storage REB_CFG
    rb_initialized, \* whether ADMIN / REB_CFG have been set
    last_rebalance, \* instance storage LST_REB, 0 while unset (read with unwrap_or(0))
    rebalanced_at,  \* ledger time of the latest rebalance that returned, -1 while none has
    custody,        \* settlement tokens the fund holds: transfers in less transfers out
    calls,          \* number of calls that completed without a panic
    lastCall        \* the last invocation: arguments, outcome, effect order, result

fundVars == <<admin, config, initialized, accounts, total_locked>>
riskVars == <<rm_admin, rm_params, rm_initialized, rm_store>>
rebalVars == <<rb_admin, rb_config, rb_initialized, last_rebalance>>
vars == <<now, fundVars, riskVars, rebalVars, rebalanced_at, custody, calls, lastCall>>

(***************************************************************************)
(* Bounds of the model.                                                    *)
(***************************************************************************)
MaxCalls == 3
MaxTime == 2

(***************************************************************************)
(* Input domains.                                                          *)
(***************************************************************************)
Users == {"u1", "u2"}
AdminAddrs == {"a1"}
Callers == AdminAddrs \cup {"u1"}
NoAddress == "-"
FundAddress == "fund"

None == <<>>
Some(v) == <<v>>
IsSome(o) == Len(o) = 1
Unwrap(o) == o[1]

Amounts == {-199, 0, 199, 5000000}
\* Arguments update_config is called with: nothing supplied, single fields,
\* two fields, and all five.
NoPatch ==
    [ min_deposit |-> None, max_deposit |-> None, withdrawal_fee |-> None,
      performance_fee |-> None, early_withdrawal_penalty |-> None ]
ConfigPatches ==
    { NoPatch,
      [NoPatch EXCEPT !.min_deposit = Some(-199)],
      [NoPatch EXCEPT !.max_deposit = Some(199)],
      [NoPatch EXCEPT !.withdrawal_fee = Some(10000)],
      [NoPatch EXCEPT !.performance_fee = Some(300), !.early_withdrawal_penalty = Some(0)],
      [ min_deposit |-> Some(0), max_deposit |-> Some(5000000), withdrawal_fee |-> Some(0),
        performance_fee |-> Some(0), early_withdrawal_penalty |-> Some(20000) ] }

InputProfiles == {"Moderate", "Aggressive"}
Referrals == {None, Some("u2")}

\* Arguments initialize is called with: the configuration of the contract's
\* tests (max_deposit lowered to fit the evaluator's integers), a permissive
\* one with a short lock and a small penalty, and one without a lock period or
\* referral bonus.
InitArgs ==
    { [ min_deposit |-> 1000000, max_deposit |-> 1000000000, lock_period |-> 2592000,
        withdrawal_fee |-> 100, performance_fee |-> 200,
        early_withdrawal_penalty |-> 500, referral_bonus |-> 50 ],
      [ min_deposit |-> -199, max_deposit |-> 5000000, lock_period |-> 2,
        withdrawal_fee |-> 100, performance_fee |-> 200,
        early_withdrawal_penalty |-> 50, referral_bonus |-> 50 ],
      [ min_deposit |-> 0, max_deposit |-> 199, lock_period |-> 0,
        withdrawal_fee |-> 250, performance_fee |-> 0,
        early_withdrawal_penalty |-> 10000, referral_bonus |-> 0 ] }

(***************************************************************************)
(* Fixed-point arithmetic.  Rust's / on integers truncates toward zero.    *)
(***************************************************************************)
BP_DENOM == 10000

TruncDiv(a, b) == IF a >= 0 THEN a \div b ELSE -((-a) \div b)
TruncRem(a, b) == a - b * TruncDiv(a, b)

\* (amount * bp as i128) / 10000, for bp >= 0.  amount = q*10000 + r with r of
\* the sign of amount, so the quotient of the product is q*bp + (r*bp)/10000
\* exactly; evaluated this way the product stays inside the evaluator's
\* 32-bit integers for the amounts used here.
MulBpTowardNegInf(amount, bp) ==
    (TruncDiv(amount, BP_DENOM) * bp) + ((TruncRem(amount, BP_DENOM) * bp) \div BP_DENOM)
MulBp(amount, bp) ==
    (TruncDiv(amount, BP_DENOM) * bp) + TruncDiv(TruncRem(amount, BP_DENOM) * bp, BP_DENOM)

(***************************************************************************)
(* Data model.                                                             *)
(***************************************************************************)
DefaultAccount ==
    [ balance |-> 0, risk_profile |-> "Conservative", locked_until |-> 0,
      last_deposit |-> 0, total_deposits |-> 0, total_withdrawals |-> 0,
      rewards_earned |-> 0, referral_code |-> "" ]

NoConfig ==
    [ kale_token |-> NoAddress, min_deposit |-> 0, max_deposit |-> 0, lock_period |-> 0,
      withdrawal_fee |-> 0, performance_fee |-> 0, early_withdrawal_penalty |-> 0,
      referral_bonus |-> 0 ]

\* A lookup that ignores the key while any account is stored.
get_user_accountAnyKey(user) ==
    IF DOMAIN accounts # {} THEN accounts[CHOOSE u \in DOMAIN accounts : TRUE]
    ELSE DefaultAccount

get_user_account(user) ==
    IF user \in DOMAIN accounts THEN accounts[user] ELSE DefaultAccount

SetAccount(user, acct) ==
    [u \in (DOMAIN accounts) \cup {user} |-> IF u = user THEN acct ELSE accounts[u]]

\* The sum of balance over all stored accounts.
RECURSIVE SumBalances(_, _)
SumBalances(accts, S) ==
    IF S = {} THEN 0
    ELSE LET u == CHOOSE x \in S : TRUE
         IN accts[u].balance + SumBalances(accts, S \ {u})

(***************************************************************************)
(* Effects of an invocation, in program order.                             *)
(***************************************************************************)
Transfer(from, to, amount) == [kind |-> "transfer", from |-> from, to |-> to, amount |-> amount]
WriteAccount(user) == [kind |-> "set_account", from |-> user, to |-> user, amount |-> 0]
WriteTotal == [kind |-> "set_total", from |-> FundAddress, to |-> FundAddress, amount |-> 0]
WriteConfig == [kind |-> "set_config", from |-> FundAddress, to |-> FundAddress, amount |-> 0]

NoRet ==
    [ amount |-> 0, new_balance |-> 0, lock_until |-> 0, referral_bonus |-> 0,
      fee |-> 0, penalty |-> 0, net_amount |-> 0, account |-> DefaultAccount ]

\* The storage of the pension fund as one value.
Storage ==
    [ admin |-> admin, config |-> config, initialized |-> initialized,
      accounts |-> accounts, total_locked |-> total_locked ]

\* An invocation that panicked before it wrote anything.
Panic(why, events) ==
    [ outcome |-> why, st |-> Storage, events |-> events, ret |-> NoRet ]

\* An invocation that panicked after the writes that made st.
PanicAfter(why, st, events) ==
    [ outcome |-> why, st |-> st, events |-> events, ret |-> NoRet ]

\* A host that kept the writes of a panicked invocation.
NoRollback(r, before) == r.st

\* What the host persists of an invocation: its writes when it returned, and
\* nothing when it panicked (the invocation is atomic).
Rollback(r, before) == IF r.outcome = "ok" THEN r.st ELSE before

Done(st, events, ret) ==
    [ outcome |-> "ok", st |-> st, events |-> events, ret |-> ret ]

NoCall ==
    [ op |-> "none", user |-> NoAddress, amount |-> 0, profile |-> "Conservative",
      referral |-> None, patch |-> NoPatch, time |-> 0, outcome |-> "ok",
      events |-> <<>>, ret |-> NoRet ]

(***************************************************************************)
(* PensionFundContract entry points.  Each *Call operator is the body of   *)
(* the entry point run against the current storage: it yields the outcome, *)
(* the storage the invocation leaves, its effects in program order and the *)
(* returned record.                                                        *)
(***************************************************************************)
\* c: the configuration arguments of initialize, which it stores as FundConfig.
InitializeCall(new_admin, kale_token, c) ==
    LET cfg == [ kale_token |-> kale_token, min_deposit |-> c.min_deposit,
                 max_deposit |-> c.max_deposit, lock_period |-> c.lock_period,
                 withdrawal_fee |-> c.withdrawal_fee,
                 performance_fee |-> c.performance_fee,
                 early_withdrawal_penalty |-> c.early_withdrawal_penalty,
                 referral_bonus |-> c.referral_bonus ]
        st == [Storage EXCEPT !.admin = new_admin, !.config = cfg,
                              !.initialized = TRUE, !.total_locked = 0]
    IN Done(st, <<WriteConfig, WriteTotal>>, NoRet)

\* amount < config.min_deposit || amount > config.max_deposit
InvalidDepositAmountExclusive(amount, cfg) ==
    amount <= cfg.min_deposit \/ amount >= cfg.max_deposit
InvalidDepositAmount(amount, cfg) ==
    amount < cfg.min_deposit \/ amount > cfg.max_deposit

\* The account deposit() stores for the depositor.
DepositedAccountStaleLock(old, amount, risk_profile, current_time, cfg) ==
    [old EXCEPT !.balance = @ + amount,
                !.risk_profile = risk_profile,
                !.locked_until = old.last_deposit + cfg.lock_period,
                !.last_deposit = current_time,
                !.total_deposits = @ + amount]
DepositedAccount(old, amount, risk_profile, current_time, cfg) ==
    [old EXCEPT !.balance = @ + amount,
                !.risk_profile = risk_profile,
                !.locked_until = current_time + cfg.lock_period,
                !.last_deposit = current_time,
                !.total_deposits = @ + amount]

\* total_locked += amount
LockedAfterDepositLessBonus(total, amount, referral_bonus) == total + amount - referral_bonus
LockedAfterDeposit(total, amount, referral_bonus) == total + amount

\* referral_bonus = 0; if let Some(_) = referral { (amount * bp as i128) / 10000 }
ReferralBonusAlways(amount, referral, referral_bonus_bp) == MulBp(amount, referral_bonus_bp)
ReferralBonus(amount, referral, referral_bonus_bp) ==
    IF IsSome(referral) THEN MulBp(amount, referral_bonus_bp) ELSE 0

DepositCall(user, amount, risk_profile, referral, xfer_ok, ref_ok) ==
    IF ~initialized THEN Panic("NotInitialized", <<>>)
    ELSE IF InvalidDepositAmount(amount, config) THEN Panic("InvalidAmount", <<>>)
    ELSE
    LET t_in == Transfer(user, FundAddress, amount)
        referral_bonus == ReferralBonus(amount, referral, config.referral_bonus)
        pays == IsSome(referral) /\ referral_bonus > 0
        transfers == IF pays
                     THEN <<t_in, Transfer(FundAddress, Unwrap(referral), referral_bonus)>>
                     ELSE <<t_in>>
        user_account == DepositedAccount(get_user_account(user), amount, risk_profile, now, config)
        st == [Storage EXCEPT !.accounts = SetAccount(user, user_account),
                              !.total_locked =
                                  LockedAfterDeposit(total_locked, amount, referral_bonus)]
        ret == [NoRet EXCEPT !.amount = amount,
                             !.new_balance = user_account.balance,
                             !.lock_until = user_account.locked_until,
                             !.referral_bonus = referral_bonus]
    IN  IF ~xfer_ok THEN Panic("TransferFailed", <<t_in>>)
        ELSE IF pays /\ ~ref_ok THEN Panic("TransferFailed", transfers)
        ELSE Done(st, transfers \o <<WriteAccount(user), WriteTotal>>, ret)

\* fee = (amount * config.withdrawal_fee as i128) / 10000
WithdrawalFee(amount, withdrawal_fee) == MulBp(amount, withdrawal_fee)

\* penalty, charged only while current_time < locked_until
EarlyWithdrawalPenaltyRoundedUp(amount, penalty_bp, current_time, locked_until) ==
    IF current_time < locked_until
    THEN IF amount > 0 /\ penalty_bp > 0 /\ MulBp(amount, penalty_bp) = 0
         THEN 1 ELSE MulBp(amount, penalty_bp)
    ELSE 0
EarlyWithdrawalPenaltyAtExpiry(amount, penalty_bp, current_time, locked_until) ==
    IF current_time <= locked_until THEN MulBp(amount, penalty_bp) ELSE 0
EarlyWithdrawalPenalty(amount, penalty_bp, current_time, locked_until) ==
    IF current_time < locked_until THEN MulBp(amount, penalty_bp) ELSE 0

\* user_account.balance < amount
InsufficientBalanceOrAll(acct, amount) == acct.balance <= amount
InsufficientBalance(acct, amount) == acct.balance < amount

\* The account withdraw() stores for the participant.
WithdrawnAccountUnbooked(old, amount) ==
    [old EXCEPT !.balance = @ - amount]
WithdrawnAccount(old, amount) ==
    [old EXCEPT !.balance = @ - amount, !.total_withdrawals = @ + amount]

\* total_locked -= amount
LockedAfterWithdrawNet(total, amount, net_amount) == total - net_amount
LockedAfterWithdraw(total, amount, net_amount) == total - amount

WithdrawCall(user, amount, xfer_ok) ==
    IF ~initialized THEN Panic("NotInitialized", <<>>)
    ELSE IF InsufficientBalance(get_user_account(user), amount)
         THEN Panic("InsufficientBalance", <<>>)
    ELSE
    LET old == get_user_account(user)
        fee == WithdrawalFee(amount, config.withdrawal_fee)
        penalty == EarlyWithdrawalPenalty(amount, config.early_withdrawal_penalty,
                                          now, old.locked_until)
        net_amount == amount - fee - penalty
        user_account == WithdrawnAccount(old, amount)
        st == [Storage EXCEPT !.accounts = SetAccount(user, user_account),
                              !.total_locked =
                                  LockedAfterWithdraw(total_locked, amount, net_amount)]
        events == <<WriteAccount(user), WriteTotal, Transfer(FundAddress, user, net_amount)>>
        ret == [NoRet EXCEPT !.amount = amount, !.fee = fee, !.penalty = penalty,
                             !.net_amount = net_amount,
                             !.new_balance = user_account.balance]
    IN  IF ~xfer_ok THEN PanicAfter("TransferFailed", st, events)
        ELSE Done(st, events, ret)

\* if let Some(x) = field { config.field = x }
PatchOrDefault(old, opt) == IF IsSome(opt) THEN Unwrap(opt) ELSE 0
Patch(old, opt) == IF IsSome(opt) THEN Unwrap(opt) ELSE old

\* p: the five Option arguments of update_config.
UpdateConfigCall(caller, p) ==
    IF ~initialized THEN Panic("NotInitialized", <<>>)
    ELSE IF caller # admin THEN Panic("Unauthorized", <<>>)
    ELSE
    LET cfg == [config EXCEPT
                  !.min_deposit = Patch(@, p.min_deposit),
                  !.max_deposit = Patch(@, p.max_deposit),
                  !.withdrawal_fee = Patch(@, p.withdrawal_fee),
                  !.performance_fee = Patch(@, p.performance_fee),
                  !.early_withdrawal_penalty = Patch(@, p.early_withdrawal_penalty)]
    IN Done([Storage EXCEPT !.config = cfg], <<WriteConfig>>, NoRet)

\* get_account: the stored account or the default; nothing is read but the
\* account, and nothing is written.
GetAccountCallCreating(user) ==
    Done([Storage EXCEPT !.accounts = SetAccount(user, get_user_account(user))],
         <<WriteAccount(user)>>, [NoRet EXCEPT !.account = get_user_account(user)])
GetAccountCall(user) ==
    Done(Storage, <<>>, [NoRet EXCEPT !.account = get_user_account(user)])

DistributeRewardsCall(caller, total_rewards) ==
    IF ~initialized THEN Panic("NotInitialized", <<>>)
    ELSE IF caller # admin THEN Panic("Unauthorized", <<>>)
    ELSE Done(Storage, <<>>, NoRet)

(***************************************************************************)
(* Actions.                                                                *)
(***************************************************************************)
\* The settlement tokens the transfers of an invocation bring to the fund,
\* less those they take from it.
RECURSIVE Received(_)
Received(events) ==
    IF events = << >> THEN 0
    ELSE LET ev == Head(events)
         IN  (CASE ev.kind = "transfer" /\ ev.to = FundAddress -> ev.amount
                [] ev.kind = "transfer" /\ ev.from = FundAddress -> -ev.amount
                [] OTHER -> 0)
             + Received(Tail(events))

\* The host commits what the invocation left and hands back its result.
Invoke(op, user, amount, profile, referral, patch, r) ==
    /\ lastCall = NoCall
    /\ calls < MaxCalls
    /\ admin' = Rollback(r, Storage).admin
    /\ config' = Rollback(r, Storage).config
    /\ initialized' = Rollback(r, Storage).initialized
    /\ accounts' = Rollback(r, Storage).accounts
    /\ total_locked' = Rollback(r, Storage).total_locked
    /\ calls' = IF r.outcome = "ok" THEN calls + 1 ELSE calls
    /\ lastCall' = [ op |-> op, user |-> user, amount |-> amount, profile |-> profile,
                     referral |-> referral, patch |-> patch, time |-> now,
                     outcome |-> r.outcome, events |-> r.events, ret |-> r.ret ]
    /\ now' = now
    /\ custody' = IF r.outcome = "ok" THEN custody + Received(r.events) ELSE custody
    /\ UNCHANGED <<riskVars, rebalVars, rebalanced_at>>

Initialize ==
    \E a \in AdminAddrs, c \in InitArgs :
        Invoke("initialize", a, 0, "Conservative", None, NoPatch,
               InitializeCall(a, "KALE", c))

InitializeOnce == ~initialized /\ Initialize

Deposit ==
    \E user \in Users, amount \in Amounts, risk_profile \in InputProfiles,
       referral \in Referrals, xfer_ok \in BOOLEAN, ref_ok \in BOOLEAN :
        Invoke("deposit", user, amount, risk_profile, referral, NoPatch,
               DepositCall(user, amount, risk_profile, referral, xfer_ok, ref_ok))

Withdraw ==
    \E user \in Users, amount \in Amounts, xfer_ok \in BOOLEAN :
        Invoke("withdraw", user, amount, "Conservative", None, NoPatch,
               WithdrawCall(user, amount, xfer_ok))

UpdateConfig ==
    \E caller \in Callers, p \in ConfigPatches :
        Invoke("update_config", caller, 0, "Conservative", None, p,
               UpdateConfigCall(caller, p))

DistributeRewards ==
    \E caller \in Callers :
        Invoke("distribute_rewards", caller, 1000, "Conservative", None, NoPatch,
               DistributeRewardsCall(caller, 1000))

GetAccount ==
    \E user \in Users :
        Invoke("get_account", user, 0, "Conservative", None, NoPatch, GetAccountCall(user))

\* The ledger closes: env.ledger().timestamp() moves on.
Tick ==
    /\ lastCall = NoCall
    /\ now < MaxTime
    /\ now' = now + 1
    /\ UNCHANGED <<fundVars, riskVars, rebalVars, rebalanced_at, custody, calls, lastCall>>

\* The result of the invocation is handed back to the caller.
Return ==
    /\ lastCall # NoCall
    /\ lastCall' = NoCall
    /\ UNCHANGED <<now, fundVars, riskVars, rebalVars, rebalanced_at, custody, calls>>


(***************************************************************************)
(* RiskManagerContract.                                                    *)
(***************************************************************************)
Profiles == {"Conservative", "Moderate", "Aggressive"}

Allocation(kale, btc, usdc, xlm) ==
    [ kale_percentage |-> kale, btc_percentage |-> btc,
      usdc_percentage |-> usdc, xlm_percentage |-> xlm ]

VolatilityData(asset, daily, weekly, monthly, last_updated) ==
    [ asset |-> asset, daily_volatility |-> daily, weekly_volatility |-> weekly,
      monthly_volatility |-> monthly, last_updated |-> last_updated ]

NoRiskParameters ==
    [ max_position_size |-> 0, max_daily_volatility |-> 0, correlation_threshold |-> 0,
      stress_test_threshold |-> 0, rebalance_threshold |-> 0 ]

\* Arguments initialize / update_risk_parameters are called with: those of the
\* contract's tests, and a second set.
RiskParameterArgs ==
    { [ max_position_size |-> 3000, max_daily_volatility |-> 1000,
        correlation_threshold |-> 7000, stress_test_threshold |-> 2000,
        rebalance_threshold |-> 500 ],
      [ max_position_size |-> 5000, max_daily_volatility |-> 2000,
        correlation_threshold |-> 8000, stress_test_threshold |-> 3000,
        rebalance_threshold |-> 0 ] }

\* Arguments update_allocation is called with: two that sum to 10000, one that
\* sums to 9999, one that sums to 20000, and one that sums to 2^32 + 10000.
AllocationArgs ==
    { Allocation(2500, 2500, 2500, 2500), Allocation(10000, 0, 0, 0),
      Allocation(2000, 3000, 4000, 999), Allocation(5000, 5000, 5000, 5000),
      Allocation(2147483647, 2147483647, 10002, 0) }

\* Arguments update_volatility is called with: no record, one record, two
\* records for the same asset, and a record whose asset symbol is the storage
\* key of the Conservative allocation.
VolatilityArgs ==
    { << >>,
      << VolatilityData("KALE", 800, 1500, 2500, 1) >>,
      << VolatilityData("KALE", 800, 1500, 2500, 1), VolatilityData("KALE", 1200, 1600, 2600, 2) >>,
      << VolatilityData("CONS_ALL", 100, 200, 300, 1) >> }

\* Arguments should_rebalance is called with: the two of the
\* contract's test, one that is 500 off the Aggressive default in two assets,
\* one that is 501 off, and the Aggressive default itself.
CurrentAllocationArgs ==
    { Allocation(4800, 3600, 1100, 500), Allocation(7000, 2000, 500, 500),
      Allocation(5500, 3000, 1000, 500), Allocation(5501, 2999, 1000, 500),
      Allocation(5000, 3500, 1000, 500) }

\* Arguments assess_risk is called with as current allocation: those of
\* should_rebalance, one with more than half in USDC, and one with more than
\* half in USDC and more than half in KALE.
AssessedAllocationArgs ==
    CurrentAllocationArgs \cup { Allocation(1000, 1000, 5001, 2999), Allocation(6000, 0, 6000, 0) }

\* market_conditions: the arguments of update_volatility, and two samples
\* whose mean daily volatility is not an integer.
MarketArgs ==
    VolatilityArgs
      \cup { << VolatilityData("KALE", 801, 1500, 2500, 1), VolatilityData("BTC", 800, 900, 950, 1) >> }

\* The allocations with every weight in the basis-point range 0..10000.
BpAllocationArgs ==
    { a \in AllocationArgs :
        /\ a.kale_percentage <= 10000 /\ a.btc_percentage <= 10000
        /\ a.usdc_percentage <= 10000 /\ a.xlm_percentage <= 10000 }

\* The persistent storage key of a profile's allocation.
AllocationKey(profile) ==
    CASE profile = "Conservative" -> "CONS_ALL"
      [] profile = "Moderate" -> "MOD_ALL"
      [] profile = "Aggressive" -> "AGG_ALL"

\* The hard-coded table get_allocation falls back to and initialize stores.
DefaultAllocation(profile) ==
    CASE profile = "Conservative" -> Allocation(2000, 3000, 4000, 1000)
      [] profile = "Moderate" -> Allocation(3500, 4000, 2000, 500)
      [] profile = "Aggressive" -> Allocation(5000, 3500, 1000, 500)

\* A value of the persistent storage with the type it was stored as.
StoredAllocation(a) == [type |-> "AssetAllocation", value |-> a]
StoredVolatility(d) == [type |-> "VolatilityData", value |-> d]

StoreSet(store, key, value) ==
    [k \in (DOMAIN store) \cup {key} |-> IF k = key THEN value ELSE store[k]]

RiskStorage ==
    [ admin |-> rm_admin, params |-> rm_params, initialized |-> rm_initialized,
      store |-> rm_store ]

NoAssessment ==
    [ profile |-> "Conservative", recommended_allocation |-> Allocation(0, 0, 0, 0),
      risk_score |-> 0, volatility_score |-> 0, correlation_risk |-> 0, liquidity_risk |-> 0 ]

NoRiskRet ==
    [ allocation |-> Allocation(0, 0, 0, 0), should_rebalance |-> FALSE,
      assessment |-> NoAssessment ]

RiskPanic(why) == [ outcome |-> why, st |-> RiskStorage, events |-> <<>>, ret |-> NoRiskRet ]
RiskDone(st, ret) == [ outcome |-> "ok", st |-> st, events |-> <<>>, ret |-> ret ]

set_default_allocations(store) ==
    StoreSet(StoreSet(StoreSet(store,
        "CONS_ALL", StoredAllocation(DefaultAllocation("Conservative"))),
        "MOD_ALL", StoredAllocation(DefaultAllocation("Moderate"))),
        "AGG_ALL", StoredAllocation(DefaultAllocation("Aggressive")))

RiskInitializeCall(new_admin, risk_params) ==
    RiskDone([ admin |-> new_admin, params |-> risk_params, initialized |-> TRUE,
               store |-> set_default_allocations(rm_store) ], NoRiskRet)

\* get_allocation: the stored allocation, the default table when none is
\* stored; a stored value of another type cannot be read as an allocation.
GetAllocationCall(profile) ==
    LET key == AllocationKey(profile) IN
    IF key \notin DOMAIN rm_store
    THEN RiskDone(RiskStorage, [NoRiskRet EXCEPT !.allocation = DefaultAllocation(profile)])
    ELSE IF rm_store[key].type # "AssetAllocation" THEN RiskPanic("ConversionError")
    ELSE RiskDone(RiskStorage, [NoRiskRet EXCEPT !.allocation = rm_store[key].value])

\* The sum of four u32 exceeds the evaluator's integers: it is kept in two
\* 16-bit limbs, [hi, lo] standing for hi * 65536 + lo with 0 <= lo < 65536.
U32_LIMB == 65536

\* allocation.kale_percentage + btc_percentage + usdc_percentage + xlm_percentage
\* as a mathematical integer.
AllocationTotal(a) ==
    LET lo == (a.kale_percentage % U32_LIMB) + (a.btc_percentage % U32_LIMB)
                + (a.usdc_percentage % U32_LIMB) + (a.xlm_percentage % U32_LIMB)
        hi == (a.kale_percentage \div U32_LIMB) + (a.btc_percentage \div U32_LIMB)
                + (a.usdc_percentage \div U32_LIMB) + (a.xlm_percentage \div U32_LIMB)
    IN  [ hi |-> hi + (lo \div U32_LIMB), lo |-> lo % U32_LIMB ]

\* The sum does not fit u32 (the weights are not negative, so some partial
\* sum overflows exactly when the whole sum does).
OverflowsU32(t) == t.hi >= U32_LIMB

\* The sum as u32 arithmetic leaves it when it wraps.
WrapU32(t) == [ hi |-> t.hi % U32_LIMB, lo |-> t.lo ]

\* t stands for the number n.
TotalIs(t, n) == t.hi = n \div U32_LIMB /\ t.lo = n % U32_LIMB

\* total != 10000, on the u32 the additions produced.
InvalidTotal(allocation) == ~TotalIs(WrapU32(AllocationTotal(allocation)), 10000)

\* overflow_checks: whether the build traps on integer overflow (debug
\* builds and release builds with overflow-checks do, other release builds
\* wrap).
UpdateAllocationCall(caller, profile, allocation, overflow_checks) ==
    IF ~rm_initialized THEN RiskPanic("NotInitialized")
    ELSE IF caller # rm_admin THEN RiskPanic("Unauthorized")
    ELSE IF overflow_checks /\ OverflowsU32(AllocationTotal(allocation))
         THEN RiskPanic("ArithmeticOverflow")
    ELSE IF InvalidTotal(allocation) THEN RiskPanic("InvalidAllocation")
    ELSE RiskDone([RiskStorage EXCEPT
                     !.store = StoreSet(@, AllocationKey(profile), StoredAllocation(allocation))],
                  NoRiskRet)

\* for data in volatility_data.iter() { set(&data.asset, &data) }
RECURSIVE StoreVolatility(_, _)
StoreVolatility(store, volatility_data) ==
    IF volatility_data = << >> THEN store
    ELSE StoreVolatility(
             StoreSet(store, Head(volatility_data).asset, StoredVolatility(Head(volatility_data))),
             Tail(volatility_data))

UpdateVolatilityCall(caller, volatility_data) ==
    IF ~rm_initialized THEN RiskPanic("NotInitialized")
    ELSE IF caller # rm_admin THEN RiskPanic("Unauthorized")
    ELSE RiskDone([RiskStorage EXCEPT !.store = StoreVolatility(@, volatility_data)], NoRiskRet)

UpdateRiskParametersCall(caller, risk_params) ==
    IF ~rm_initialized THEN RiskPanic("NotInitialized")
    ELSE IF caller # rm_admin THEN RiskPanic("Unauthorized")
    ELSE RiskDone([RiskStorage EXCEPT !.params = risk_params], NoRiskRet)

\* The host commits what an invocation of the risk manager left.
\* abs_diff(a, b) of the risk manager (u32).
AbsDiff(a, b) == IF a > b THEN a - b ELSE b - a

\* kale_deviation.max(btc_deviation).max(usdc_deviation).max(xlm_deviation)
MaxOf(a, b) == IF a >= b THEN a ELSE b
MaxDeviation(current, recommended) ==
    MaxOf(MaxOf(MaxOf(AbsDiff(current.kale_percentage, recommended.kale_percentage),
                      AbsDiff(current.btc_percentage, recommended.btc_percentage)),
                AbsDiff(current.usdc_percentage, recommended.usdc_percentage)),
          AbsDiff(current.xlm_percentage, recommended.xlm_percentage))

\* max_deviation > risk_params.rebalance_threshold
ExceedsThresholdOrEqual(max_deviation, threshold) == max_deviation >= threshold
ExceedsThreshold(max_deviation, threshold) == max_deviation > threshold

\* should_rebalance: get_allocation first, then the stored parameters.
ShouldRebalanceCall(profile, current_allocation) ==
    LET recommended == GetAllocationCall(profile) IN
    IF recommended.outcome # "ok" THEN RiskPanic(recommended.outcome)
    ELSE IF ~rm_initialized THEN RiskPanic("NotInitialized")
    ELSE RiskDone(RiskStorage,
             [NoRiskRet EXCEPT !.should_rebalance =
                 ExceedsThreshold(MaxDeviation(current_allocation, recommended.ret.allocation),
                                  rm_params.rebalance_threshold)])

\* u32 arithmetic on limbs: n as limbs, the sum of two, a multiple by a
\* small factor (all as mathematical integers, hi >= U32_LIMB when the value
\* does not fit u32), and the quotient of a u32 by a divisor of at least 4.
Limbs(n) == [ hi |-> n \div U32_LIMB, lo |-> n % U32_LIMB ]
PlusLimbs(s, t) ==
    [ hi |-> s.hi + t.hi + ((s.lo + t.lo) \div U32_LIMB), lo |-> (s.lo + t.lo) % U32_LIMB ]
TimesLimbs(t, factor) ==
    [ hi |-> (t.hi * factor) + ((t.lo * factor) \div U32_LIMB),
      lo |-> (t.lo * factor) % U32_LIMB ]
DivLimbs(t, d) == ((t.hi \div d) * U32_LIMB) + ((((t.hi % d) * U32_LIMB) + t.lo) \div d)

\* kale_diff + btc_diff + usdc_diff + xlm_diff as a mathematical integer.
DeviationTotal(current, recommended) ==
    PlusLimbs(PlusLimbs(Limbs(AbsDiff(current.kale_percentage, recommended.kale_percentage)),
                        Limbs(AbsDiff(current.btc_percentage, recommended.btc_percentage))),
              PlusLimbs(Limbs(AbsDiff(current.usdc_percentage, recommended.usdc_percentage)),
                        Limbs(AbsDiff(current.xlm_percentage, recommended.xlm_percentage))))

\* (kale_diff + btc_diff + usdc_diff + xlm_diff) / 4, on the u32 the
\* additions produced.
calculate_allocation_risk(current, recommended) ==
    DivLimbs(WrapU32(DeviationTotal(current, recommended)), 4)

\* total_volatility += data.daily_volatility, over the samples
RECURSIVE TotalVolatility(_)
TotalVolatility(market_conditions) ==
    IF market_conditions = << >> THEN 0
    ELSE Head(market_conditions).daily_volatility + TotalVolatility(Tail(market_conditions))

calculate_volatility_score(market_conditions) ==
    IF market_conditions = << >> THEN 5000
    ELSE TotalVolatility(market_conditions) \div Len(market_conditions)

calculate_correlation_risk(market_conditions) == 3000

calculate_liquidity_riskKaleFirst(allocation) ==
    IF allocation.kale_percentage > 5000 THEN 8000
    ELSE IF allocation.usdc_percentage > 5000 THEN 1000
    ELSE 4000
calculate_liquidity_risk(allocation) ==
    IF allocation.usdc_percentage > 5000 THEN 1000
    ELSE IF allocation.kale_percentage > 5000 THEN 8000
    ELSE 4000

\* allocation_risk * 30 + volatility_score * 40 + correlation_risk * 20
\*    + liquidity_risk * 10 as a mathematical integer.
WeightedTotal(allocation_risk, volatility_score, correlation_risk, liquidity_risk) ==
    PlusLimbs(TimesLimbs(Limbs(allocation_risk), 30),
              Limbs((volatility_score * 40) + (correlation_risk * 20) + (liquidity_risk * 10)))

\* (allocation_risk * 30 + volatility_score * 40 + correlation_risk * 20
\*    + liquidity_risk * 10) / 100, on the u32 the operations produced.
RiskScore(allocation_risk, volatility_score, correlation_risk, liquidity_risk) ==
    DivLimbs(WrapU32(WeightedTotal(allocation_risk, volatility_score, correlation_risk,
                                   liquidity_risk)), 100)

\* assess_risk: get_allocation first, then the stored parameters. The terms
\* of both sums are not negative, so an operation overflows exactly when the
\* whole sum does not fit u32.
AssessRiskCall(profile, current_allocation, market_conditions, overflow_checks) ==
    LET recommended == GetAllocationCall(profile) IN
    IF recommended.outcome # "ok" THEN RiskPanic(recommended.outcome)
    ELSE IF ~rm_initialized THEN RiskPanic("NotInitialized")
    ELSE IF overflow_checks
              /\ OverflowsU32(DeviationTotal(current_allocation, recommended.ret.allocation))
         THEN RiskPanic("ArithmeticOverflow")
    ELSE
    LET allocation_risk ==
            calculate_allocation_risk(current_allocation, recommended.ret.allocation)
        volatility_score == calculate_volatility_score(market_conditions)
        correlation_risk == calculate_correlation_risk(market_conditions)
        liquidity_risk == calculate_liquidity_risk(current_allocation)
    IN  IF overflow_checks
             /\ OverflowsU32(WeightedTotal(allocation_risk, volatility_score,
                                           correlation_risk, liquidity_risk))
        THEN RiskPanic("ArithmeticOverflow")
        ELSE
        RiskDone(RiskStorage,
            [NoRiskRet EXCEPT !.assessment =
                [ profile |-> profile,
                  recommended_allocation |-> recommended.ret.allocation,
                  risk_score |-> RiskScore(allocation_risk, volatility_score,
                                           correlation_risk, liquidity_risk),
                  volatility_score |-> volatility_score,
                  correlation_risk |-> correlation_risk,
                  liquidity_risk |-> liquidity_risk ]])

RiskInvoke(op, caller, profile, args, r) ==
    /\ lastCall = NoCall
    /\ calls < MaxCalls
    /\ rm_admin' = Rollback(r, RiskStorage).admin
    /\ rm_params' = Rollback(r, RiskStorage).params
    /\ rm_initialized' = Rollback(r, RiskStorage).initialized
    /\ rm_store' = Rollback(r, RiskStorage).store
    /\ calls' = IF r.outcome = "ok" THEN calls + 1 ELSE calls
    /\ lastCall' = [ op |-> op, user |-> caller, amount |-> 0, profile |-> profile,
                     referral |-> None, time |-> now, outcome |-> r.outcome,
                     events |-> r.events, ret |-> r.ret, args |-> args ]
    /\ UNCHANGED <<now, fundVars, rebalVars, rebalanced_at, custody>>

RiskInitialize ==
    \E a \in AdminAddrs, risk_params \in RiskParameterArgs :
        RiskInvoke("rm_initialize", a, "Conservative", risk_params,
                   RiskInitializeCall(a, risk_params))

GetAllocation ==
    \E profile \in Profiles :
        RiskInvoke("get_allocation", NoAddress, profile, << >>, GetAllocationCall(profile))

UpdateAllocation ==
    \E caller \in Callers, profile \in Profiles, allocation \in AllocationArgs,
       overflow_checks \in BOOLEAN :
        RiskInvoke("update_allocation", caller, profile, allocation,
                   UpdateAllocationCall(caller, profile, allocation, overflow_checks))

UpdateVolatility ==
    \E caller \in Callers, volatility_data \in VolatilityArgs :
        RiskInvoke("update_volatility", caller, "Conservative", volatility_data,
                   UpdateVolatilityCall(caller, volatility_data))

UpdateRiskParameters ==
    \E caller \in Callers, risk_params \in RiskParameterArgs :
        RiskInvoke("update_risk_parameters", caller, "Conservative", risk_params,
                   UpdateRiskParametersCall(caller, risk_params))

\* update_allocation with weights in the basis-point range.
UpdateAllocationBp ==
    \E caller \in Callers, profile \in Profiles, allocation \in BpAllocationArgs,
       overflow_checks \in BOOLEAN :
        RiskInvoke("update_allocation", caller, profile, allocation,
                   UpdateAllocationCall(caller, profile, allocation, overflow_checks))

AssessRisk ==
    \E profile \in Profiles, current_allocation \in AssessedAllocationArgs,
       market_conditions \in MarketArgs, overflow_checks \in BOOLEAN :
        RiskInvoke("assess_risk", NoAddress, profile,
                   [current_allocation |-> current_allocation,
                    market_conditions |-> market_conditions],
                   AssessRiskCall(profile, current_allocation, market_conditions,
                                  overflow_checks))

ShouldRebalance ==
    \E profile \in Profiles, current_allocation \in CurrentAllocationArgs :
        RiskInvoke("should_rebalance", NoAddress, profile, current_allocation,
                   ShouldRebalanceCall(profile, current_allocation))

RiskNext ==
    \/ RiskInitialize
    \/ GetAllocation
    \/ UpdateAllocation
    \/ UpdateVolatility
    \/ UpdateRiskParameters
    \/ ShouldRebalance
    \/ Tick
    \/ Return

(***************************************************************************)
(* RebalancerContract.                                                     *)
(*                                                                         *)
(* The contract's prices are i128 scaled by 1e7 and its default BTC price  *)
(* is 430000000000.  Here a price is counted in PriceUnit (1e5 of the      *)
(* contract's units) and a USD value in ValueUnit (1e4 of the contract's   *)
(* units); with the mock balances, all multiples of 1e6, every USD value   *)
(* of a price that is a multiple of PriceUnit is a multiple of ValueUnit,  *)
(* so the quotients below are those of the contract.                       *)
(***************************************************************************)
PriceUnit == 100000
ValueUnit == 10000

KALE_BALANCE == 1000000
BTC_BALANCE == 50000000
USDC_BALANCE == 2000000000
XLM_BALANCE == 500000000

\* unwrap_or defaults of the four prices, in PriceUnit.
DEFAULT_KALE_PRICE == 1000
DEFAULT_BTC_PRICE == 4300000
DEFAULT_USDC_PRICE == 100
DEFAULT_XLM_PRICE == 110

REBALANCE_THRESHOLD == 500
TRADE_GAS == 50000

NoRebalanceConfig ==
    [ min_rebalance_amount |-> 0, max_slippage |-> 0, rebalance_frequency |-> 0,
      gas_limit |-> 0, max_trades_per_rebalance |-> 0 ]

\* Configurations initialize / update_config are called with
\* (min_rebalance_amount in the contract's USD units).
RebalanceConfigArgs ==
    { [ min_rebalance_amount |-> 1000000, max_slippage |-> 100, rebalance_frequency |-> 1,
        gas_limit |-> 1000000, max_trades_per_rebalance |-> 5 ],
      [ min_rebalance_amount |-> 100000000, max_slippage |-> 300, rebalance_frequency |-> 0,
        gas_limit |-> 500000, max_trades_per_rebalance |-> 0 ] }

\* Map arguments are functions on the keys present.
MapOf(k1, v1, k2, v2) == [k \in {k1, k2} |-> IF k = k1 THEN v1 ELSE v2]

MapOf3(k1, v1, k2, v2, k3, v3) ==
    [k \in {k1, k2, k3} |-> IF k = k1 THEN v1 ELSE IF k = k2 THEN v2 ELSE v3]

\* target_allocations: a full map, one asset at 10000, a map summing to 9000,
\* a map without KALE, a map giving half to an asset the contract ignores,
\* two maps that are 500 and 501 away from the percentages of the mock
\* portfolio at the default prices (BTC 9988, USDC 9, XLM 2, KALE 0), and a
\* map whose weights sum to 2^32 + 10000.
TargetArgs ==
    { [k \in {"KALE", "BTC", "USDC", "XLM"} |->
          CASE k = "KALE" -> 2000 [] k = "BTC" -> 3000 [] k = "USDC" -> 4000 [] k = "XLM" -> 1000],
      [k \in {"BTC"} |-> 10000],
      MapOf("BTC", 5000, "USDC", 4000),
      MapOf("BTC", 9000, "USDC", 1000),
      MapOf("BTC", 5000, "ETH", 5000),
      MapOf3("BTC", 9488, "USDC", 509, "XLM", 3),
      MapOf3("BTC", 9487, "USDC", 510, "XLM", 3),
      MapOf3("BTC", 2147483647, "USDC", 2147483647, "KALE", 10002) }

\* current_prices, in PriceUnit: none supplied, a BTC price of $1, and every
\* asset at $0.01.
PriceArgs ==
    { << >>,
      [k \in {"BTC"} |-> 100],
      [k \in {"KALE", "BTC", "USDC", "XLM"} |-> 1] }

\* A price for each of the four assets.
Prices(kale, btc, usdc, xlm) ==
    [k \in {"KALE", "BTC", "USDC", "XLM"} |->
        CASE k = "KALE" -> kale [] k = "BTC" -> btc [] k = "USDC" -> usdc [] k = "XLM" -> xlm]

\* current_prices the snapshot is taken with, in PriceUnit: the maps of
\* PriceArgs, every combination of a zero, a small and a default-sized price
\* per asset, and two maps of negative prices.
SnapshotPriceArgs ==
    PriceArgs
      \cup { Prices(kale, btc, usdc, xlm) :
                kale \in {0, 1, 1000}, btc \in {0, 1, 4300000},
                usdc \in {0, 1, 2}, xlm \in {0, 2, 110} }
      \cup { Prices(-1, -1, -1, -1), Prices(-1, 0, 0, 0) }

\* map.get(key).unwrap_or(default)
GetOr(map, key, default) == IF key \in DOMAIN map THEN map[key] ELSE default

\* The 16-bit halves of the values of the keys, each summed.
RECURSIVE SumHalves(_, _)
SumHalves(map, keys) ==
    IF keys = {} THEN [hi |-> 0, lo |-> 0]
    ELSE LET k == CHOOSE x \in keys : TRUE
             rest == SumHalves(map, keys \ {k})
         IN  [ hi |-> (map[k] \div U32_LIMB) + rest.hi, lo |-> (map[k] % U32_LIMB) + rest.lo ]

\* target_allocations.values().iter().sum() as a mathematical integer, in
\* 16-bit limbs: hi * 65536 + lo.
SumValues(map, keys) ==
    [ hi |-> SumHalves(map, keys).hi + (SumHalves(map, keys).lo \div U32_LIMB),
      lo |-> SumHalves(map, keys).lo % U32_LIMB ]

\* (balance * price) / 10000000, in ValueUnit.
ValueUsd(balance, price) == (balance \div 1000000) * price

\* floor((q + r / d) * f1 * f2 * ...) for 0 <= r < d, one small factor at a time.
RECURSIVE LongMulDiv(_, _, _, _)
LongMulDiv(q, r, factors, d) ==
    IF factors = << >> THEN q
    ELSE LET f == Head(factors)
         IN  LongMulDiv((q * f) + ((r * f) \div d), (r * f) % d, Tail(factors), d)

\* A percentage rounded to the nearest unit.
PercentageRounded(value, total) ==
    IF total > 0
    THEN LongMulDiv(value \div total, value % total, <<5, 5, 5, 5, 2, 2, 2, 2>>, total)
           + (IF LongMulDiv(value \div total, value % total,
                            <<5, 5, 5, 5, 2, 2, 2, 2, 10>>, total) % 10 >= 5
              THEN 1 ELSE 0)
    ELSE 0

\* if total > 0 { (value * 10000) / total } else { 0 }, for value >= 0.
Percentage(value, total) ==
    IF total > 0
    THEN LongMulDiv(value \div total, value % total, <<5, 5, 5, 5, 2, 2, 2, 2>>, total)
    ELSE 0

get_portfolio_snapshot(current_prices) ==
    LET kale_value_usd == ValueUsd(KALE_BALANCE, GetOr(current_prices, "KALE", DEFAULT_KALE_PRICE))
        btc_value_usd == ValueUsd(BTC_BALANCE, GetOr(current_prices, "BTC", DEFAULT_BTC_PRICE))
        usdc_value_usd == ValueUsd(USDC_BALANCE, GetOr(current_prices, "USDC", DEFAULT_USDC_PRICE))
        xlm_value_usd == ValueUsd(XLM_BALANCE, GetOr(current_prices, "XLM", DEFAULT_XLM_PRICE))
        total_value_usd == kale_value_usd + btc_value_usd + usdc_value_usd + xlm_value_usd
    IN  [ total_value_usd |-> total_value_usd,
          kale_balance |-> KALE_BALANCE, btc_balance |-> BTC_BALANCE,
          usdc_balance |-> USDC_BALANCE, xlm_balance |-> XLM_BALANCE,
          kale_percentage |-> Percentage(kale_value_usd, total_value_usd),
          btc_percentage |-> Percentage(btc_value_usd, total_value_usd),
          usdc_percentage |-> Percentage(usdc_value_usd, total_value_usd),
          xlm_percentage |-> Percentage(xlm_value_usd, total_value_usd) ]

abs_diff(a, b) == IF a > b THEN a - b ELSE b - a

\* portfolio.total_value_usd < config.min_rebalance_amount, the left side in
\* ValueUnit and the right side in the contract's units.
BelowMinimum(total_value_usd, min_rebalance_amount) ==
    total_value_usd <= ((min_rebalance_amount - 1) \div ValueUnit)

needs_rebalancingAtThreshold(cfg, portfolio, target_allocations) ==
    IF BelowMinimum(portfolio.total_value_usd, cfg.min_rebalance_amount) THEN FALSE
    ELSE \/ abs_diff(portfolio.kale_percentage, GetOr(target_allocations, "KALE", 0)) >= REBALANCE_THRESHOLD
         \/ abs_diff(portfolio.btc_percentage, GetOr(target_allocations, "BTC", 0)) >= REBALANCE_THRESHOLD
         \/ abs_diff(portfolio.usdc_percentage, GetOr(target_allocations, "USDC", 0)) >= REBALANCE_THRESHOLD
         \/ abs_diff(portfolio.xlm_percentage, GetOr(target_allocations, "XLM", 0)) >= REBALANCE_THRESHOLD

needs_rebalancing(cfg, portfolio, target_allocations) ==
    IF BelowMinimum(portfolio.total_value_usd, cfg.min_rebalance_amount) THEN FALSE
    ELSE \/ abs_diff(portfolio.kale_percentage, GetOr(target_allocations, "KALE", 0)) > REBALANCE_THRESHOLD
         \/ abs_diff(portfolio.btc_percentage, GetOr(target_allocations, "BTC", 0)) > REBALANCE_THRESHOLD
         \/ abs_diff(portfolio.usdc_percentage, GetOr(target_allocations, "USDC", 0)) > REBALANCE_THRESHOLD
         \/ abs_diff(portfolio.xlm_percentage, GetOr(target_allocations, "XLM", 0)) > REBALANCE_THRESHOLD

\* (portfolio.total_value_usd * target as i128) / 10000 in the contract's
\* units, which is total_value_usd * target for a total counted in ValueUnit:
\* whole * ValueUnit + rest, with 0 <= rest < ValueUnit.
TargetValue(total_value_usd, target) ==
    [ whole |-> ((total_value_usd \div ValueUnit) * target)
                  + (((total_value_usd % ValueUnit) * target) \div ValueUnit),
      rest |-> ((total_value_usd % ValueUnit) * target) % ValueUnit ]

\* Only over-allocated KALE is sold, for USDC.
generate_rebalance_orders(portfolio, target_allocations, current_prices) ==
    LET kale_target == GetOr(target_allocations, "KALE", 0)
        kale_target_value == TargetValue(portfolio.total_value_usd, kale_target)
        kale_price == GetOr(current_prices, "KALE", DEFAULT_KALE_PRICE)
        kale_current_value == ValueUsd(portfolio.kale_balance, kale_price)
        \* kale_current_value - kale_target_value, in the contract's units
        excess_value == ((kale_current_value - kale_target_value.whole) * ValueUnit)
                          - kale_target_value.rest
        \* (excess_value * 10000000) / kale_price
        excess_tokens == (excess_value * (10000000 \div PriceUnit)) \div kale_price
    IN  \* kale_current_value > kale_target_value, as rest < ValueUnit
        IF kale_current_value > kale_target_value.whole
        THEN << [ from_asset |-> "KALE", to_asset |-> "USDC", amount |-> excess_tokens,
                  min_received |-> MulBp(excess_value, 9800),
                  max_slippage |-> 200, priority |-> 5 ] >>
        ELSE << >>

simulate_trade_execution(order) == TRADE_GAS

calculate_actual_slippage(order) == order.max_slippage \div 2

Max(a, b) == IF a > b THEN a ELSE b

RECURSIVE ExecuteFromThrough(_, _, _, _)
ExecuteFromThrough(orders, i, max_trades, acc) ==
    IF i > Len(orders) \/ (i - 1) > max_trades THEN acc
    ELSE ExecuteFromThrough(orders, i + 1, max_trades,
             [ orders_executed |-> acc.orders_executed + 1,
               gas_used |-> acc.gas_used + simulate_trade_execution(orders[i]),
               slippage_incurred |-> Max(acc.slippage_incurred,
                                         calculate_actual_slippage(orders[i])) ])

\* The loop of execute_rebalance_orders from order i on.
RECURSIVE ExecuteFrom(_, _, _, _)
ExecuteFrom(orders, i, max_trades, acc) ==
    IF i > Len(orders) \/ (i - 1) >= max_trades THEN acc
    ELSE ExecuteFrom(orders, i + 1, max_trades,
             [ orders_executed |-> acc.orders_executed + 1,
               gas_used |-> acc.gas_used + simulate_trade_execution(orders[i]),
               slippage_incurred |-> Max(acc.slippage_incurred,
                                         calculate_actual_slippage(orders[i])) ])

execute_rebalance_orders(orders, cfg, start_time) ==
    LET acc == ExecuteFrom(orders, 1, cfg.max_trades_per_rebalance,
                   [orders_executed |-> 0, gas_used |-> 0, slippage_incurred |-> 0])
    IN  [ total_value_before |-> 0, total_value_after |-> 0,
          orders_executed |-> acc.orders_executed, gas_used |-> acc.gas_used,
          slippage_incurred |-> acc.slippage_incurred, timestamp |-> start_time ]

RebalStorage ==
    [ admin |-> rb_admin, config |-> rb_config, initialized |-> rb_initialized,
      last_rebalance |-> last_rebalance ]

NoRebalRet ==
    [ total_value_before |-> 0, total_value_after |-> 0, orders_executed |-> 0,
      gas_used |-> 0, slippage_incurred |-> 0, timestamp |-> 0 ]

RebalPanic(why) == [ outcome |-> why, st |-> RebalStorage, events |-> <<>>, ret |-> NoRebalRet ]
RebalDone(st, orders, ret) == [ outcome |-> "ok", st |-> st, events |-> orders, ret |-> ret ]

RebalInitializeCall(new_admin, cfg) ==
    RebalDone([ admin |-> new_admin, config |-> cfg, initialized |-> TRUE,
                last_rebalance |-> 0 ], <<>>, NoRebalRet)

RebalanceTooSoonOrAt(current_time, last, cfg) == current_time <= last + cfg.rebalance_frequency

\* The frequency gate: current_time < last_rebalance + config.rebalance_frequency
RebalanceTooSoon(current_time, last, cfg) == current_time < last + cfg.rebalance_frequency

\* The stamp of a rebalance that generated and executed its orders.
StampRebalance(st, current_time) == [st EXCEPT !.last_rebalance = current_time]

\* total_allocation != 10000, on the u32 the iterator's sum produced.
InvalidTargetTotal(target_allocations) ==
    ~TotalIs(WrapU32(SumValues(target_allocations, DOMAIN target_allocations)), 10000)

\* overflow_checks: whether the build traps on integer overflow.
RebalanceCall(caller, target_allocations, current_prices, overflow_checks) ==
    IF ~rb_initialized THEN RebalPanic("NotInitialized")
    ELSE IF RebalanceTooSoon(now, last_rebalance, rb_config) THEN RebalPanic("RebalanceTooSoon")
    ELSE
    LET portfolio == get_portfolio_snapshot(current_prices)
        total_allocation == SumValues(target_allocations, DOMAIN target_allocations)
        orders == generate_rebalance_orders(portfolio, target_allocations, current_prices)
    IN  IF overflow_checks /\ OverflowsU32(total_allocation)
        THEN RebalPanic("ArithmeticOverflow")
        ELSE IF InvalidTargetTotal(target_allocations)
        THEN RebalPanic("InvalidTargetAllocation")
        ELSE IF ~needs_rebalancing(rb_config, portfolio, target_allocations)
        THEN RebalDone(RebalStorage, <<>>,
                 [ total_value_before |-> portfolio.total_value_usd,
                   total_value_after |-> portfolio.total_value_usd,
                   orders_executed |-> 0, gas_used |-> 0, slippage_incurred |-> 0,
                   timestamp |-> now ])
        ELSE RebalDone(StampRebalance(RebalStorage, now), orders,
                       execute_rebalance_orders(orders, rb_config, now))

RebalUpdateConfigCall(caller, cfg) ==
    IF ~rb_initialized THEN RebalPanic("NotInitialized")
    ELSE IF caller # rb_admin THEN RebalPanic("Unauthorized")
    ELSE RebalDone([RebalStorage EXCEPT !.config = cfg], <<>>, NoRebalRet)

\* The host commits what an invocation of the rebalancer left.
RebalInvoke(op, caller, target_allocations, current_prices, r) ==
    /\ lastCall = NoCall
    /\ calls < MaxCalls
    /\ rb_admin' = Rollback(r, RebalStorage).admin
    /\ rb_config' = Rollback(r, RebalStorage).config
    /\ rb_initialized' = Rollback(r, RebalStorage).initialized
    /\ last_rebalance' = Rollback(r, RebalStorage).last_rebalance
    /\ rebalanced_at' = IF op = "rebalance" /\ r.outcome = "ok" THEN now ELSE rebalanced_at
    /\ calls' = IF r.outcome = "ok" THEN calls + 1 ELSE calls
    /\ lastCall' = [ op |-> op, user |-> caller, amount |-> 0, profile |-> "Conservative",
                     referral |-> None, time |-> now, outcome |-> r.outcome,
                     events |-> r.events, ret |-> r.ret,
                     targets |-> target_allocations, prices |-> current_prices ]
    /\ UNCHANGED <<now, fundVars, riskVars, custody>>

RebalInitialize ==
    \E a \in AdminAddrs, cfg \in RebalanceConfigArgs :
        RebalInvoke("rb_initialize", a, << >>, << >>, RebalInitializeCall(a, cfg))

Rebalance ==
    \E caller \in Callers, target_allocations \in TargetArgs, current_prices \in PriceArgs,
       overflow_checks \in BOOLEAN :
        RebalInvoke("rebalance", caller, target_allocations, current_prices,
                    RebalanceCall(caller, target_allocations, current_prices, overflow_checks))

RebalUpdateConfig ==
    \E caller \in Callers, cfg \in RebalanceConfigArgs :
        RebalInvoke("rb_update_config", caller, << >>, << >>, RebalUpdateConfigCall(caller, cfg))

\* get_portfolio_snapshot reads no storage and writes none.
GetPortfolioSnapshot ==
    /\ lastCall = NoCall
    /\ calls < MaxCalls
    /\ \E current_prices \in SnapshotPriceArgs :
          lastCall' = [ op |-> "get_portfolio_snapshot", user |-> NoAddress, amount |-> 0,
                        profile |-> "Conservative", referral |-> None, time |-> now,
                        outcome |-> "ok", events |-> << >>, ret |-> NoRebalRet,
                        targets |-> << >>, prices |-> current_prices,
                        snapshot |-> get_portfolio_snapshot(current_prices) ]
    /\ calls' = calls + 1
    /\ UNCHANGED <<now, fundVars, riskVars, rebalVars, rebalanced_at, custody>>

SnapshotNext ==
    \/ GetPortfolioSnapshot
    \/ Tick
    \/ Return

RebalNext ==
    \/ RebalInitialize
    \/ Rebalance
    \/ RebalUpdateConfig
    \/ Tick
    \/ Return

Init ==
    /\ now = 0
    /\ admin = NoAddress
    /\ config = NoConfig
    /\ initialized = FALSE
    /\ accounts = << >>
    /\ total_locked = 0
    /\ rm_admin = NoAddress
    /\ rm_params = NoRiskParameters
    /\ rm_initialized = FALSE
    /\ rm_store = << >>
    /\ rb_admin = NoAddress
    /\ rb_config = NoRebalanceConfig
    /\ rb_initialized = FALSE
    /\ last_rebalance = 0
    /\ rebalanced_at = -1
    /\ custody = 0
    /\ calls = 0
    /\ lastCall = NoCall

Next ==
    \/ Initialize
    \/ UpdateConfig
    \/ Deposit
    \/ Withdraw
    \/ DistributeRewards
    \/ GetAccount
    \/ Tick
    \/ Return

Spec == Init /\ [][Next]_vars

\* initialize at any time, not counted among the calls the model bounds.
InitializeAnew ==
    /\ lastCall = NoCall
    /\ \E a \in AdminAddrs, c \in InitArgs :
          /\ admin' = InitializeCall(a, "KALE", c).st.admin
          /\ config' = InitializeCall(a, "KALE", c).st.config
          /\ initialized' = InitializeCall(a, "KALE", c).st.initialized
          /\ accounts' = InitializeCall(a, "KALE", c).st.accounts
          /\ total_locked' = InitializeCall(a, "KALE", c).st.total_locked
          /\ lastCall' = [ op |-> "initialize", user |-> a, amount |-> 0,
                           profile |-> "Conservative", referral |-> None, patch |-> NoPatch,
                           time |-> now, outcome |-> "ok",
                           events |-> InitializeCall(a, "KALE", c).events, ret |-> NoRet ]
    /\ UNCHANGED <<now, riskVars, rebalVars, rebalanced_at, custody, calls>>

\* The deposits and withdrawals of one participant, without a referral.
DepositAlone ==
    \E amount \in Amounts, xfer_ok \in BOOLEAN :
        Invoke("deposit", "u1", amount, "Moderate", None, NoPatch,
               DepositCall("u1", amount, "Moderate", None, xfer_ok, TRUE))

WithdrawAlone ==
    \E amount \in Amounts, xfer_ok \in BOOLEAN :
        Invoke("withdraw", "u1", amount, "Conservative", None, NoPatch,
               WithdrawCall("u1", amount, xfer_ok))

\* One participant's deposits and withdrawals with initialize at any time
\* between them.
RelockNext ==
    \/ InitializeAnew
    \/ DepositAlone
    \/ WithdrawAlone
    \/ Tick
    \/ Return

RelockSpec == Init /\ [][RelockNext]_vars

\* initialize once, then deposits and withdrawals only.
LedgerNext ==
    \/ InitializeOnce
    \/ Deposit
    \/ Withdraw
    \/ Tick
    \/ Return

LedgerSpec == Init /\ [][LedgerNext]_vars

RiskSpec == Init /\ [][RiskNext]_vars

\* The risk manager while no update_allocation is made.
DefaultsNext ==
    \/ RiskInitialize
    \/ GetAllocation
    \/ UpdateVolatility
    \/ UpdateRiskParameters
    \/ Tick
    \/ Return

DefaultsSpec == Init /\ [][DefaultsNext]_vars

\* The risk manager with allocations, current allocations and volatilities
\* in the basis-point range 0..10000, where no u32 operation of assess_risk
\* leaves its range.
AssessNext ==
    \/ RiskInitialize
    \/ UpdateAllocationBp
    \/ UpdateRiskParameters
    \/ AssessRisk
    \/ Tick
    \/ Return

AssessSpec == Init /\ [][AssessNext]_vars

\* The risk manager with every allocation update_allocation accepts,
\* assessed in either build.
AssessAnyNext ==
    \/ RiskInitialize
    \/ UpdateAllocation
    \/ AssessRisk
    \/ Return

AssessAnySpec == Init /\ [][AssessAnyNext]_vars

RebalSpec == Init /\ [][RebalNext]_vars

SnapshotSpec == Init /\ [][SnapshotNext]_vars

FundCalls ==
    Initialize \/ Deposit \/ Withdraw \/ UpdateConfig \/ DistributeRewards \/ GetAccount

RiskCalls ==
    RiskInitialize \/ GetAllocation \/ UpdateAllocation \/ UpdateVolatility \/ UpdateRiskParameters

RebalCalls == RebalInitialize \/ Rebalance \/ RebalUpdateConfig

\* Every entry point of the three contracts.  No contract reads or writes the
\* storage of another, so calls to different contracts commute; a behaviour
\* exercises one deployment, the other two staying as constructed.
SystemNext ==
    \/ ~rm_initialized /\ ~rb_initialized /\ FundCalls
    \/ ~initialized /\ ~rb_initialized /\ RiskCalls
    \/ ~initialized /\ ~rm_initialized /\ RebalCalls
    \/ Tick
    \/ Return

SystemSpec == Init /\ [][SystemNext]_vars

(***************************************************************************)
(* The administration of the three contracts: initialize with any address  *)
(* as the admin argument (the only authorization initialize requires is    *)
(* that of the address passed in), and the admin-only operations.          *)
(***************************************************************************)
InitializeAs ==
    \E a \in Callers, c \in InitArgs :
        Invoke("initialize", a, 0, "Conservative", None, NoPatch,
               InitializeCall(a, "KALE", c))

RiskInitializeAs ==
    \E a \in Callers, risk_params \in RiskParameterArgs :
        RiskInvoke("rm_initialize", a, "Conservative", risk_params,
                   RiskInitializeCall(a, risk_params))

RebalInitializeAs ==
    \E a \in Callers, cfg \in RebalanceConfigArgs :
        RebalInvoke("rb_initialize", a, << >>, << >>, RebalInitializeCall(a, cfg))

AdminNext ==
    \/ InitializeAs
    \/ UpdateConfig
    \/ RiskInitializeAs
    \/ UpdateAllocation
    \/ UpdateVolatility
    \/ UpdateRiskParameters
    \/ RebalInitializeAs
    \/ RebalUpdateConfig
    \/ Return

AdminSpec == Init /\ [][AdminNext]_vars

(***************************************************************************)
(* deposit and withdraw on bounded integers.  The amounts of the contract  *)
(* are i128 and its timestamps u64, wider than the evaluator's integers:   *)
(* here i128 is narrowed to I_BITS bits and u64 to U_BITS bits, and every  *)
(* addition, subtraction and multiplication of the two entry points is     *)
(* done on that width.  The code uses the plain operators `+`, `-`, `*`    *)
(* and `+=`: an operation whose result is out of range panics in a build   *)
(* with overflow checks and wraps in a build without them                  *)
(* (overflow_checks).                                                      *)
(***************************************************************************)
I_BITS == 16
U_BITS == 3

MinI == -(2 ^ (I_BITS - 1))
MaxI == (2 ^ (I_BITS - 1)) - 1
MaxU == (2 ^ U_BITS) - 1

FitsI(x) == MinI <= x /\ x <= MaxI
FitsU(x) == 0 <= x /\ x <= MaxU

\* The value two's-complement arithmetic leaves when it wraps.
WrapI(x) == ((x - MinI) % (2 ^ I_BITS)) + MinI
WrapU(x) == x % (2 ^ U_BITS)

\* initialize arguments on the narrow width: every amount up to the largest
\* is a valid deposit; the second has the longest lock period and no fees.
NarrowInitArgs ==
    { [ min_deposit |-> 1, max_deposit |-> MaxI, lock_period |-> 1,
        withdrawal_fee |-> 100, performance_fee |-> 200,
        early_withdrawal_penalty |-> 500, referral_bonus |-> 100 ],
      [ min_deposit |-> 1, max_deposit |-> MaxI, lock_period |-> MaxU,
        withdrawal_fee |-> 0, performance_fee |-> 0,
        early_withdrawal_penalty |-> 0, referral_bonus |-> 0 ] }

\* 300 * 100 fits, (MaxI \div 2 + 1) * 100 does not, and twice
\* MaxI \div 2 + 1 does not.
NarrowAmounts == { 300, (MaxI \div 2) + 1 }

\* deposit(): lib.rs:119-183 with the width of each operation.
NarrowDepositCall(user, amount, risk_profile, referral, xfer_ok, ref_ok, overflow_checks) ==
    IF ~initialized THEN Panic("NotInitialized", <<>>)
    ELSE IF InvalidDepositAmount(amount, config) THEN Panic("InvalidAmount", <<>>)
    ELSE
    LET t_in == Transfer(user, FundAddress, amount)
        product == amount * config.referral_bonus
        referral_bonus == IF IsSome(referral) THEN TruncDiv(WrapI(product), BP_DENOM) ELSE 0
        pays == IsSome(referral) /\ referral_bonus > 0
        transfers == IF pays
                     THEN <<t_in, Transfer(FundAddress, Unwrap(referral), referral_bonus)>>
                     ELSE <<t_in>>
        old == get_user_account(user)
        balance == old.balance + amount
        locked_until == now + config.lock_period
        total_deposits == old.total_deposits + amount
        total == total_locked + amount
        user_account == [old EXCEPT !.balance = WrapI(balance),
                                    !.risk_profile = risk_profile,
                                    !.locked_until = WrapU(locked_until),
                                    !.last_deposit = now,
                                    !.total_deposits = WrapI(total_deposits)]
        st == [Storage EXCEPT !.accounts = SetAccount(user, user_account),
                              !.total_locked = WrapI(total)]
        ret == [NoRet EXCEPT !.amount = amount,
                             !.new_balance = user_account.balance,
                             !.lock_until = user_account.locked_until,
                             !.referral_bonus = referral_bonus]
    IN  IF ~xfer_ok THEN Panic("TransferFailed", <<t_in>>)
        ELSE IF overflow_checks /\ IsSome(referral) /\ ~FitsI(product)
             THEN Panic("ArithmeticOverflow", <<t_in>>)
        ELSE IF pays /\ ~ref_ok THEN Panic("TransferFailed", transfers)
        ELSE IF overflow_checks /\ ~(FitsI(balance) /\ FitsU(locked_until)
                                       /\ FitsI(total_deposits))
             THEN Panic("ArithmeticOverflow", transfers)
        ELSE IF overflow_checks /\ ~FitsI(total)
             THEN PanicAfter("ArithmeticOverflow", [st EXCEPT !.total_locked = total_locked],
                             transfers \o <<WriteAccount(user)>>)
        ELSE Done(st, transfers \o <<WriteAccount(user), WriteTotal>>, ret)

\* withdraw(): lib.rs:186-244 with the width of each operation.
NarrowWithdrawCall(user, amount, xfer_ok, overflow_checks) ==
    IF ~initialized THEN Panic("NotInitialized", <<>>)
    ELSE IF InsufficientBalance(get_user_account(user), amount)
         THEN Panic("InsufficientBalance", <<>>)
    ELSE
    LET old == get_user_account(user)
        locked == now < old.locked_until
        fee_product == amount * config.withdrawal_fee
        fee == TruncDiv(WrapI(fee_product), BP_DENOM)
        penalty_product == amount * config.early_withdrawal_penalty
        penalty == IF locked THEN TruncDiv(WrapI(penalty_product), BP_DENOM) ELSE 0
        less_fee == amount - fee
        net == WrapI(less_fee) - penalty
        net_amount == WrapI(net)
        balance == old.balance - amount
        total_withdrawals == old.total_withdrawals + amount
        total == total_locked - amount
        user_account == [old EXCEPT !.balance = WrapI(balance),
                                    !.total_withdrawals = WrapI(total_withdrawals)]
        st == [Storage EXCEPT !.accounts = SetAccount(user, user_account),
                              !.total_locked = WrapI(total)]
        events == <<WriteAccount(user), WriteTotal, Transfer(FundAddress, user, net_amount)>>
        ret == [NoRet EXCEPT !.amount = amount, !.fee = fee, !.penalty = penalty,
                             !.net_amount = net_amount,
                             !.new_balance = user_account.balance]
    IN  IF overflow_checks /\ ~(FitsI(fee_product) /\ (locked => FitsI(penalty_product))
                                 /\ FitsI(less_fee) /\ FitsI(net) /\ FitsI(balance)
                                 /\ FitsI(total_withdrawals))
        THEN Panic("ArithmeticOverflow", <<>>)
        ELSE IF overflow_checks /\ ~FitsI(total)
             THEN PanicAfter("ArithmeticOverflow", [st EXCEPT !.total_locked = total_locked],
                             <<WriteAccount(user)>>)
        ELSE IF ~xfer_ok THEN PanicAfter("TransferFailed", st, events)
        ELSE Done(st, events, ret)

NarrowInitialize ==
    \E a \in AdminAddrs, c \in NarrowInitArgs :
        /\ ~initialized
        /\ Invoke("initialize", a, 0, "Conservative", None, NoPatch,
                  InitializeCall(a, "KALE", c))

NarrowDeposit ==
    \E user \in Users, amount \in NarrowAmounts, referral \in Referrals,
       xfer_ok \in BOOLEAN, ref_ok \in BOOLEAN, overflow_checks \in BOOLEAN :
        Invoke("deposit", user, amount, "Conservative", referral, NoPatch,
               NarrowDepositCall(user, amount, "Conservative", referral, xfer_ok, ref_ok,
                                 overflow_checks))

NarrowWithdraw ==
    \E user \in Users, amount \in NarrowAmounts, xfer_ok \in BOOLEAN,
       overflow_checks \in BOOLEAN :
        Invoke("withdraw", user, amount, "Conservative", None, NoPatch,
               NarrowWithdrawCall(user, amount, xfer_ok, overflow_checks))

OverflowNext ==
    \/ NarrowInitialize
    \/ NarrowDeposit
    \/ NarrowWithdraw
    \/ Tick
    \/ Return

OverflowSpec == Init /\ [][OverflowNext]_vars

(***************************************************************************)
(* calculate_price_impact of the reflector adapter, on i128 narrowed to    *)
(* I_BITS bits.  Its u32 result is kept at 32 bits, in limbs.              *)
(***************************************************************************)
\* a / b of Rust, truncated toward zero, for b # 0.
Magnitude(x) == IF x < 0 THEN -x ELSE x
Quotient(a, b) ==
    IF (a < 0) = (b < 0) THEN Magnitude(a) \div Magnitude(b)
    ELSE -(Magnitude(a) \div Magnitude(b))

\* impact as u32: the low 32 bits of the two's-complement value.
AsU32(x) == [ hi |-> (x \div U32_LIMB) % U32_LIMB, lo |-> x % U32_LIMB ]

ImpactPanic(why) == [ outcome |-> why, impact |-> Limbs(0) ]
ImpactDone(impact) == [ outcome |-> "ok", impact |-> impact ]

\* The division MinI / -1 panics in every build.
calculate_price_impact(asset, trade_amount, total_liquidity, overflow_checks) ==
    IF total_liquidity = 0 THEN ImpactDone(Limbs(10000))
    ELSE IF overflow_checks /\ ~FitsI(trade_amount * 10000)
         THEN ImpactPanic("ArithmeticOverflow")
    ELSE IF WrapI(trade_amount * 10000) = MinI /\ total_liquidity = -1
         THEN ImpactPanic("ArithmeticOverflow")
    ELSE LET impact == Quotient(WrapI(trade_amount * 10000), total_liquidity)
         IN  IF impact > 10000 THEN ImpactDone(Limbs(10000)) ELSE ImpactDone(AsU32(impact))

\* trade_amount and total_liquidity: the extremes, zero, amounts whose
\* product with 10000 fits and does not fit, the amount whose wrapped product
\* is the least integer, and liquidities around 10000.
TradeAmountArgs == { MinI, -4, -3, -1, 0, 1, 2, 3, 4, (MaxI \div 16) + 1, MaxI }
LiquidityArgs == { MinI, -10000, -1, 0, 1, 3, 9999, 10000, 20000, 30000, MaxI }

CalculatePriceImpact ==
    /\ lastCall = NoCall
    /\ calls < MaxCalls
    /\ \E asset \in {"KALE"}, trade_amount \in TradeAmountArgs,
          total_liquidity \in LiquidityArgs, overflow_checks \in BOOLEAN :
          LET r == calculate_price_impact(asset, trade_amount, total_liquidity, overflow_checks)
          IN  /\ lastCall' = [ op |-> "calculate_price_impact", user |-> NoAddress,
                               amount |-> 0, profile |-> "Conservative", referral |-> None,
                               time |-> now, outcome |-> r.outcome, events |-> << >>,
                               asset |-> asset, trade_amount |-> trade_amount,
                               total_liquidity |-> total_liquidity, impact |-> r.impact ]
              /\ calls' = IF r.outcome = "ok" THEN calls + 1 ELSE calls
    /\ UNCHANGED <<now, fundVars, riskVars, rebalVars, rebalanced_at, custody>>

ImpactNext ==
    \/ CalculatePriceImpact
    \/ Tick
    \/ Return

ImpactSpec == Init /\ [][ImpactNext]_vars

(***************************************************************************)
(* Properties.                                                             *)
(***************************************************************************)
IsCall(c, op) == c.op = op
Succeeded(c) == c.outcome = "ok"
LedgerWrites == {"set_account", "set_total"}

\* Every account other than user is stored before the step iff it is stored
\* after it, with the same contents.
OthersUnchanged(user) ==
    \A v \in Users \ {user} :
        /\ (v \in DOMAIN accounts') <=> (v \in DOMAIN accounts)
        /\ v \in DOMAIN accounts => accounts'[v] = accounts[v]

\* C1: every stored UserAccount satisfies balance == total_deposits -
\* total_withdrawals, and rewards_earned stays 0, after any sequence of
\* successful or failing calls.
C1_AccountingIdentity ==
    \A u \in DOMAIN accounts :
        /\ accounts[u].balance = accounts[u].total_deposits - accounts[u].total_withdrawals
        /\ accounts[u].rewards_earned = 0

C1_Witness ==
    \E u \in DOMAIN accounts :
        /\ accounts[u].total_deposits > 0
        /\ accounts[u].total_withdrawals > 0
        /\ accounts[u].balance > 0

\* C2: after initialize followed by deposits and withdrawals of any number of
\* participants, TotalLocked equals the sum of balance over all accounts.
C2_TotalLockedIsSum ==
    total_locked = SumBalances(accounts, DOMAIN accounts)

C2_Witness ==
    /\ DOMAIN accounts = Users
    /\ \A u \in Users : accounts[u].balance > 0
    /\ IsCall(lastCall, "deposit") /\ Succeeded(lastCall)
    /\ lastCall.ret.referral_bonus > 0

\* C3: every UserAccount has balance >= 0 in every reachable state, for any
\* sequence of initialize, update_config, deposit and withdraw calls with any
\* signed amounts and any admin-chosen min_deposit / max_deposit.
C3_BalanceNonNegative ==
    \A u \in DOMAIN accounts : accounts[u].balance >= 0

\* Everything the three contracts persist: the fund's admin, FundConfig,
\* accounts and TotalLocked; the risk manager's admin, parameters, stored
\* allocations and volatility records; the rebalancer's admin, configuration
\* and last_rebalance.
Persisted == <<fundVars, riskVars, rebalVars>>

\* The outcomes of a call that failed, by the entry points that produce them.
Failures ==
    { "NotInitialized", "InvalidAmount", "TransferFailed", "InsufficientBalance",
      "Unauthorized", "InvalidAllocation", "ConversionError", "RebalanceTooSoon",
      "InvalidTargetAllocation", "ArithmeticOverflow" }

C5_TransferBeforeRecord ==
    (IsCall(lastCall, "deposit") \/ IsCall(lastCall, "withdraw")) =>
        \A i, j \in 1..Len(lastCall.events) :
            (lastCall.events[i].kind = "transfer" /\ lastCall.events[j].kind \in LedgerWrites)
                => i < j

\* C6: deposit fails with InvalidAmount iff amount < min_deposit or amount >
\* max_deposit of the current FundConfig; amounts equal to either limit are
\* accepted, and no token transfer has been requested when it fails so.
C6_InvalidAmountIff ==
    (IsCall(lastCall, "deposit") /\ lastCall.outcome # "NotInitialized") =>
        /\ (lastCall.outcome = "InvalidAmount") <=>
               (lastCall.amount < config.min_deposit \/ lastCall.amount > config.max_deposit)
        /\ lastCall.outcome = "InvalidAmount" => lastCall.events = <<>>
        /\ lastCall.outcome # "InvalidAmount" =>
               /\ lastCall.events # <<>>
               /\ lastCall.events[1] = Transfer(lastCall.user, FundAddress, lastCall.amount)

C6_Witness ==
    /\ IsCall(lastCall, "deposit") /\ Succeeded(lastCall)
    /\ lastCall.amount = config.max_deposit
    /\ lastCall.amount > config.min_deposit

\* C7: a successful deposit(p, amount, profile, referral) at time now adds
\* exactly amount to p's balance and total_deposits and to TotalLocked, sets
\* risk_profile, locked_until = now + lock_period and last_deposit = now,
\* returns the stored balance and lock expiry, and leaves total_withdrawals,
\* every other account, FundConfig and admin unchanged.
C7_DepositEffect ==
    [][ (IsCall(lastCall', "deposit") /\ Succeeded(lastCall')) =>
          LET p == lastCall'.user
              amount == lastCall'.amount
              old == get_user_account(p)
          IN  /\ p \in DOMAIN accounts'
              /\ accounts'[p].balance = old.balance + amount
              /\ accounts'[p].total_deposits = old.total_deposits + amount
              /\ accounts'[p].risk_profile = lastCall'.profile
              /\ accounts'[p].locked_until = now + config.lock_period
              /\ accounts'[p].last_deposit = now
              /\ accounts'[p].total_withdrawals = old.total_withdrawals
              /\ total_locked' = total_locked + amount
              /\ lastCall'.ret.new_balance = accounts'[p].balance
              /\ lastCall'.ret.lock_until = accounts'[p].locked_until
              /\ OthersUnchanged(p)
              /\ config' = config
              /\ admin' = admin ]_vars

C7_Witness ==
    /\ IsCall(lastCall, "deposit") /\ Succeeded(lastCall)
    /\ DOMAIN accounts = Users
    /\ lastCall.amount > 0
    /\ lastCall.time > 0
    /\ lastCall.ret.referral_bonus > 0
    /\ accounts[lastCall.user].locked_until = lastCall.time + 2

\* C8: withdraw fails with InsufficientBalance iff amount > the participant's
\* current balance; a positive withdrawal by a participant who never
\* deposited fails, and withdrawing exactly the balance is accepted and
\* leaves balance 0.
C8_InsufficientBalanceIff ==
    [][ (IsCall(lastCall', "withdraw") /\ lastCall'.outcome # "NotInitialized") =>
          LET p == lastCall'.user
              amount == lastCall'.amount
              balance == IF p \in DOMAIN accounts THEN accounts[p].balance ELSE 0
          IN  /\ (lastCall'.outcome = "InsufficientBalance") <=> (amount > balance)
              /\ (p \notin DOMAIN accounts /\ amount > 0)
                    => lastCall'.outcome = "InsufficientBalance"
              /\ (amount = balance /\ Succeeded(lastCall')) => accounts'[p].balance = 0 ]_vars

C8_Witness ==
    /\ IsCall(lastCall, "withdraw") /\ Succeeded(lastCall)
    /\ lastCall.amount > 0
    /\ accounts[lastCall.user].balance = 0

\* C9: a successful withdraw(p, amount) subtracts the gross amount from p's
\* balance and from TotalLocked, adds the gross amount to total_withdrawals,
\* returns the stored balance, and leaves p's locked_until, last_deposit,
\* risk_profile, total_deposits, every other account and FundConfig unchanged.
C9_WithdrawEffect ==
    [][ (IsCall(lastCall', "withdraw") /\ Succeeded(lastCall')) =>
          LET p == lastCall'.user
              amount == lastCall'.amount
              old == get_user_account(p)
          IN  /\ p \in DOMAIN accounts'
              /\ accounts'[p].balance = old.balance - amount
              /\ accounts'[p].total_withdrawals = old.total_withdrawals + amount
              /\ total_locked' = total_locked - amount
              /\ lastCall'.ret.new_balance = accounts'[p].balance
              /\ accounts'[p].locked_until = old.locked_until
              /\ accounts'[p].last_deposit = old.last_deposit
              /\ accounts'[p].risk_profile = old.risk_profile
              /\ accounts'[p].total_deposits = old.total_deposits
              /\ OthersUnchanged(p)
              /\ config' = config ]_vars

C9_Witness ==
    /\ IsCall(lastCall, "withdraw") /\ Succeeded(lastCall)
    /\ lastCall.amount > 0
    /\ lastCall.ret.net_amount < lastCall.amount
    /\ accounts[lastCall.user].total_withdrawals = lastCall.amount
    /\ accounts[lastCall.user].risk_profile = "Aggressive"

\* amount * bp / 10000 truncated toward zero, written out for the amounts of
\* the model: a multiple of 10000, or small enough for the product.
BpShare(amount, bp) ==
    IF amount % BP_DENOM = 0 THEN (amount \div BP_DENOM) * bp
    ELSE IF amount >= 0 THEN (amount * bp) \div BP_DENOM
    ELSE -(((-amount) * bp) \div BP_DENOM)

\* C10: every successful withdraw at time now returns fee == amount *
\* withdrawal_fee_bp / 10000 (truncating), penalty == amount * penalty_bp /
\* 10000 if now < locked_until (the participant's, before the call) and 0
\* otherwise, net_amount == amount - fee - penalty, and hands net_amount to
\* the token transfer; with fee 100bp and penalty 500bp a 5_000_000
\* withdrawal while locked gives 50_000, 250_000 and 4_700_000.
C10_FeePenaltyNet ==
    (IsCall(lastCall, "withdraw") /\ Succeeded(lastCall)) =>
        LET amount == lastCall.amount
            ret == lastCall.ret
            locked_until == accounts[lastCall.user].locked_until
            n == Len(lastCall.events)
        IN  /\ ret.amount = amount
            /\ ret.fee = BpShare(amount, config.withdrawal_fee)
            /\ ret.penalty = IF lastCall.time < locked_until
                             THEN BpShare(amount, config.early_withdrawal_penalty)
                             ELSE 0
            /\ ret.net_amount = amount - ret.fee - ret.penalty
            /\ n > 0
            /\ lastCall.events[n] = Transfer(FundAddress, lastCall.user, ret.net_amount)
            /\ Cardinality({i \in 1..n : lastCall.events[i].kind = "transfer"}) = 1
            /\ (/\ amount = 5000000
                /\ config.withdrawal_fee = 100
                /\ config.early_withdrawal_penalty = 500
                /\ lastCall.time < locked_until)
                   => (ret.fee = 50000 /\ ret.penalty = 250000 /\ ret.net_amount = 4700000)

C10_Witness ==
    /\ IsCall(lastCall, "withdraw") /\ Succeeded(lastCall)
    /\ lastCall.amount = 5000000
    /\ accounts[lastCall.user].last_deposit = lastCall.time
    /\ lastCall.ret.fee = 50000
    /\ lastCall.ret.penalty = 250000
    /\ lastCall.ret.net_amount = 4700000

\* A successful withdraw made before the lock of its account expired.
EarlyWithdraw(c) ==
    /\ IsCall(c, "withdraw") /\ Succeeded(c)
    /\ c.time < get_user_account(c.user).locked_until

\* A successful withdraw made at or after the expiry of the lock.
LateWithdraw(c) ==
    /\ IsCall(c, "withdraw") /\ Succeeded(c)
    /\ c.time >= get_user_account(c.user).locked_until

\* C11 as stated: whenever early_withdrawal_penalty > 0, every successful
\* withdraw made before lock expiry returns penalty = amount * penalty_bp /
\* 10000, strictly greater than 0; every successful withdraw made at or after
\* locked_until returns penalty 0.
C11_PenaltyPositiveBeforeExpiry ==
    /\ (EarlyWithdraw(lastCall) /\ config.early_withdrawal_penalty > 0) =>
          /\ lastCall.ret.penalty = BpShare(lastCall.amount, config.early_withdrawal_penalty)
          /\ lastCall.ret.penalty > 0
    /\ LateWithdraw(lastCall) => lastCall.ret.penalty = 0

\* The least amount whose product with bp reaches 10000, for bp > 0.
LeastPenalised(bp) == (BP_DENOM + bp - 1) \div bp

\* C11 as amended: before lock expiry the penalty is amount * penalty_bp /
\* 10000 truncated, which is greater than 0 exactly when amount * penalty_bp
\* reaches 10000 (0 for a smaller positive amount, 0 or less for an amount of
\* 0 or less); at or after locked_until the penalty is 0.
C11_PenaltyTruncated ==
    /\ (EarlyWithdraw(lastCall) /\ config.early_withdrawal_penalty > 0) =>
          /\ lastCall.ret.penalty = BpShare(lastCall.amount, config.early_withdrawal_penalty)
          /\ lastCall.ret.penalty > 0
                <=> lastCall.amount >= LeastPenalised(config.early_withdrawal_penalty)
    /\ LateWithdraw(lastCall) => lastCall.ret.penalty = 0

\* A positive amount withdrawn before expiry under a positive penalty rate
\* that truncates to a penalty of 0.
C11_Witness ==
    /\ EarlyWithdraw(lastCall)
    /\ config.early_withdrawal_penalty > 0
    /\ lastCall.amount > 0
    /\ lastCall.ret.penalty = 0

\* C12: in every state reachable through initialize and update_config the
\* stored withdrawal_fee and early_withdrawal_penalty lie in 0..10000, and
\* the net_amount of every successful withdraw is not negative.
C12_NetAmountNonNegative ==
    /\ initialized =>
          /\ config.withdrawal_fee \in 0..BP_DENOM
          /\ config.early_withdrawal_penalty \in 0..BP_DENOM
    /\ (IsCall(lastCall, "withdraw") /\ Succeeded(lastCall)) => lastCall.ret.net_amount >= 0

\* C14: a deposit with a referral returns referral_bonus = amount *
\* referral_bonus_bp / 10000 (truncating), and 0 without a referral; the
\* depositor's balance and TotalLocked grow by the full amount, and the
\* referrer's account is neither changed nor created.
C14_ReferralBonusOffLedger ==
    [][ (IsCall(lastCall', "deposit") /\ Succeeded(lastCall')) =>
          LET user == lastCall'.user
              amount == lastCall'.amount
              referral == lastCall'.referral
          IN  /\ lastCall'.ret.referral_bonus =
                    IF IsSome(referral) THEN BpShare(amount, config.referral_bonus) ELSE 0
              /\ accounts'[user].balance = get_user_account(user).balance + amount
              /\ total_locked' = total_locked + amount
              /\ (IsSome(referral) /\ Unwrap(referral) # user) =>
                    /\ (Unwrap(referral) \in DOMAIN accounts')
                          <=> (Unwrap(referral) \in DOMAIN accounts)
                    /\ Unwrap(referral) \in DOMAIN accounts =>
                          accounts'[Unwrap(referral)] = accounts[Unwrap(referral)] ]_vars

\* A deposit whose referral bonus is positive and paid to a referrer that
\* has an account of its own.
C14_Witness ==
    /\ IsCall(lastCall, "deposit") /\ Succeeded(lastCall)
    /\ IsSome(lastCall.referral)
    /\ Unwrap(lastCall.referral) # lastCall.user
    /\ Unwrap(lastCall.referral) \in DOMAIN accounts
    /\ lastCall.ret.referral_bonus > 0
    /\ \E i \in 1..Len(lastCall.events) :
          lastCall.events[i] =
              Transfer(FundAddress, Unwrap(lastCall.referral), lastCall.ret.referral_bonus)

\* C15: get_account never fails and never changes persisted state; for a
\* participant without a stored account it returns the zero default, whatever
\* is stored for other participants, and it creates no account.
C15_GetAccountReadOnly ==
    [][ IsCall(lastCall', "get_account") =>
          /\ Succeeded(lastCall')
          /\ Persisted' = Persisted
          /\ lastCall'.user \notin DOMAIN accounts =>
                /\ lastCall'.ret.account =
                      [ balance |-> 0, risk_profile |-> "Conservative", locked_until |-> 0,
                        last_deposit |-> 0, total_deposits |-> 0, total_withdrawals |-> 0,
                        rewards_earned |-> 0, referral_code |-> "" ]
                /\ lastCall'.user \notin DOMAIN accounts'
          /\ lastCall'.user \in DOMAIN accounts =>
                lastCall'.ret.account = accounts[lastCall'.user] ]_vars

\* get_account of a participant without an account, while another
\* participant has one with a balance.
C15_Witness ==
    /\ IsCall(lastCall, "get_account")
    /\ lastCall.user \notin DOMAIN accounts
    /\ \E v \in DOMAIN accounts : accounts[v].balance > 0

\* The FundConfig fields update_config can set.
PatchFields ==
    {"min_deposit", "max_deposit", "withdrawal_fee", "performance_fee",
     "early_withdrawal_penalty"}

\* C17: a successful update_config overwrites exactly the supplied fields of
\* FundConfig with the supplied values; the fields not supplied, and always
\* the settlement asset, lock_period and referral_bonus, keep their values,
\* and no account, TotalLocked or admin changes.
C17_PartialUpdate ==
    [][ (IsCall(lastCall', "update_config") /\ Succeeded(lastCall')) =>
          /\ \A f \in PatchFields :
                config'[f] = IF lastCall'.patch[f] = <<>> THEN config[f]
                             ELSE lastCall'.patch[f][1]
          /\ config'.kale_token = config.kale_token
          /\ config'.lock_period = config.lock_period
          /\ config'.referral_bonus = config.referral_bonus
          /\ accounts' = accounts
          /\ total_locked' = total_locked
          /\ admin' = admin ]_vars

\* An update that supplies some fields and not others, changes a supplied
\* field and keeps a non-zero field that was not supplied, with accounts
\* stored.
C17_Witness ==
    /\ IsCall(lastCall, "update_config") /\ Succeeded(lastCall)
    /\ lastCall.patch.performance_fee = <<300>>
    /\ lastCall.patch.withdrawal_fee = << >>
    /\ config.performance_fee = 300
    /\ config.withdrawal_fee > 0
    /\ DOMAIN accounts # {}

\* C18: after a first successful initialize no later initialize changes the
\* stored admin, replaces FundConfig or resets TotalLocked.
C18_InitializeOnce ==
    [][ (initialized /\ IsCall(lastCall', "initialize")) =>
          /\ admin' = admin
          /\ config' = config
          /\ total_locked' = total_locked ]_vars

\* The admin-only operations of the risk manager.
RiskAdminOps == {"update_allocation", "update_risk_parameters", "update_volatility"}

\* An admin-only operation called by someone other than the stored admin
\* fails with Unauthorized, whatever its other arguments are.
RejectsOthers ==
    [][ (lastCall = NoCall /\ lastCall' # NoCall) =>
          /\ (initialized /\ IsCall(lastCall', "update_config") /\ lastCall'.user # admin)
                => lastCall'.outcome = "Unauthorized"
          /\ (rm_initialized /\ lastCall'.op \in RiskAdminOps /\ lastCall'.user # rm_admin)
                => lastCall'.outcome = "Unauthorized"
          /\ (rb_initialized /\ IsCall(lastCall', "rb_update_config")
                /\ lastCall'.user # rb_admin)
                => lastCall'.outcome = "Unauthorized" ]_vars

\* C16: every admin-only operation (fund update_config, risk manager
\* update_allocation, update_risk_parameters, update_volatility, rebalancer
\* update_config) called by someone other than the stored admin fails with
\* Unauthorized whatever its other arguments are, and once an admin is
\* stored the configuration, the risk parameters and the allocations are
\* changed only by calls whose caller is the stored admin.
C16_AdminOnly ==
    [][ (lastCall = NoCall /\ lastCall' # NoCall) =>
          /\ (initialized /\ IsCall(lastCall', "update_config") /\ lastCall'.user # admin)
                => lastCall'.outcome = "Unauthorized"
          /\ (rm_initialized /\ lastCall'.op \in RiskAdminOps /\ lastCall'.user # rm_admin)
                => lastCall'.outcome = "Unauthorized"
          /\ (rb_initialized /\ IsCall(lastCall', "rb_update_config")
                /\ lastCall'.user # rb_admin)
                => lastCall'.outcome = "Unauthorized"
          /\ (initialized /\ config' # config) => lastCall'.user = admin
          /\ (rm_initialized /\ (rm_params' # rm_params \/ rm_store' # rm_store))
                => lastCall'.user = rm_admin
          /\ (rb_initialized /\ rb_config' # rb_config) => lastCall'.user = rb_admin ]_vars

\* update_allocation called by the stored admin of an initialized risk manager.
AdminUpdatesAllocation(c) ==
    /\ lastCall = NoCall
    /\ IsCall(c, "update_allocation")
    /\ rm_initialized
    /\ c.user = rm_admin

\* C19: update_allocation by the admin succeeds if and only if the four
\* supplied weights sum to exactly 10000 and otherwise fails with
\* InvalidAllocation; after an accepted update get_allocation(profile)
\* returns exactly the supplied weights and the allocations of the other two
\* profiles are unchanged.
C19_AllocationSumLaw ==
    [][ AdminUpdatesAllocation(lastCall') =>
          /\ Succeeded(lastCall') <=> TotalIs(AllocationTotal(lastCall'.args), 10000)
          /\ ~Succeeded(lastCall') => lastCall'.outcome = "InvalidAllocation"
          /\ Succeeded(lastCall') =>
                \A profile \in Profiles :
                    IF profile = lastCall'.profile
                    THEN /\ GetAllocationCall(profile)'.outcome = "ok"
                         /\ GetAllocationCall(profile)'.ret.allocation = lastCall'.args
                    ELSE /\ GetAllocationCall(profile)'.outcome
                              = GetAllocationCall(profile).outcome
                         /\ GetAllocationCall(profile)'.ret
                              = GetAllocationCall(profile).ret ]_vars

\* C20: in every state of an initialized risk manager get_allocation returns,
\* for each of the three risk profiles, four weights whose sum as a
\* mathematical integer is exactly 10000.
C20_AllocationsSumTo10000 ==
    rm_initialized =>
        \A profile \in Profiles :
            /\ GetAllocationCall(profile).outcome = "ok"
            /\ TotalIs(AllocationTotal(GetAllocationCall(profile).ret.allocation), 10000)

\* The same, of the allocations that are stored as allocations: the entries a
\* volatility record has replaced are left out.
StoredAllocationsSumTo10000 ==
    \A profile \in Profiles :
        (AllocationKey(profile) \in DOMAIN rm_store
            /\ rm_store[AllocationKey(profile)].type = "AssetAllocation")
        => TotalIs(AllocationTotal(rm_store[AllocationKey(profile)].value), 10000)

\* Some operation of deposit(user, amount, _, referral), run in the current
\* state, has a result outside the range of its type.
DepositOverflows(user, amount, referral) ==
    \/ IsSome(referral) /\ ~FitsI(amount * config.referral_bonus)
    \/ ~FitsI(get_user_account(user).balance + amount)
    \/ ~FitsU(now + config.lock_period)
    \/ ~FitsI(get_user_account(user).total_deposits + amount)
    \/ ~FitsI(total_locked + amount)

\* The same of withdraw(user, amount).
WithdrawOverflows(user, amount) ==
    \/ ~FitsI(amount * config.withdrawal_fee)
    \/ now < get_user_account(user).locked_until
          /\ ~FitsI(amount * config.early_withdrawal_penalty)
    \/ ~FitsI(get_user_account(user).balance - amount)
    \/ ~FitsI(get_user_account(user).total_withdrawals + amount)
    \/ ~FitsI(total_locked - amount)

\* The call got past its argument checks and its token transfers.
ReachedArithmetic(c) ==
    c.outcome \notin {"NotInitialized", "InvalidAmount", "InsufficientBalance",
                      "TransferFailed"}

\* C13: a deposit or withdraw in which a computation (amount * basis points,
\* balance + amount, total_deposits + amount, TotalLocked + amount,
\* now + lock_period) exceeds the range of its type fails with
\* ArithmeticOverflow and stores nothing: no wrapped value is stored in an
\* account or in TotalLocked, or returned.
C13_OverflowFails ==
    [][ (lastCall = NoCall /\ ReachedArithmetic(lastCall')) =>
          /\ (IsCall(lastCall', "deposit")
                /\ DepositOverflows(lastCall'.user, lastCall'.amount, lastCall'.referral))
                => (lastCall'.outcome = "ArithmeticOverflow" /\ Persisted' = Persisted)
          /\ (IsCall(lastCall', "withdraw")
                /\ WithdrawOverflows(lastCall'.user, lastCall'.amount))
                => (lastCall'.outcome = "ArithmeticOverflow" /\ Persisted' = Persisted) ]_vars

\* C21: while no update_allocation has been made, before initialize as well
\* as after it, get_allocation returns Conservative {2000, 3000, 4000, 1000},
\* Moderate {3500, 4000, 2000, 500} and Aggressive {5000, 3500, 1000, 500}.
C21_DefaultAllocations ==
    /\ GetAllocationCall("Conservative").outcome = "ok"
    /\ GetAllocationCall("Conservative").ret.allocation = Allocation(2000, 3000, 4000, 1000)
    /\ GetAllocationCall("Moderate").outcome = "ok"
    /\ GetAllocationCall("Moderate").ret.allocation = Allocation(3500, 4000, 2000, 500)
    /\ GetAllocationCall("Aggressive").outcome = "ok"
    /\ GetAllocationCall("Aggressive").ret.allocation = Allocation(5000, 3500, 1000, 500)

\* The same while no volatility record has been stored under the key of an
\* allocation.
DefaultsUnlessOverwritten ==
    (\A profile \in Profiles :
        AllocationKey(profile) \in DOMAIN rm_store
            => rm_store[AllocationKey(profile)].type = "AssetAllocation")
    => C21_DefaultAllocations

\* The four weights of an allocation.
Weights == {"kale_percentage", "btc_percentage", "usdc_percentage", "xlm_percentage"}

\* C22: should_rebalance(profile, current_allocation) changes no state and,
\* whenever the recommended allocation of the profile can be read from an
\* initialized risk manager, returns true if and only if some asset's
\* |current weight - recommended weight| is strictly greater than the stored
\* rebalance_threshold.
C22_ShouldRebalance ==
    [][ IsCall(lastCall', "should_rebalance") =>
          /\ Persisted' = Persisted
          /\ \A profile \in Profiles :
                (profile = lastCall'.profile /\ rm_initialized
                    /\ GetAllocationCall(profile).outcome = "ok")
                => /\ Succeeded(lastCall')
                   /\ lastCall'.ret.should_rebalance <=>
                         \E w \in Weights :
                            \/ lastCall'.args[w]
                                  - GetAllocationCall(profile).ret.allocation[w]
                                  > rm_params.rebalance_threshold
                            \/ GetAllocationCall(profile).ret.allocation[w]
                                  - lastCall'.args[w]
                                  > rm_params.rebalance_threshold ]_vars

\* A call whose largest deviation is exactly the threshold of 500, answered
\* with false.
C22_Witness ==
    /\ IsCall(lastCall, "should_rebalance") /\ Succeeded(lastCall)
    /\ lastCall.profile = "Aggressive"
    /\ lastCall.args = Allocation(5500, 3000, 1000, 500)
    /\ GetAllocationCall("Aggressive").ret.allocation = Allocation(5000, 3500, 1000, 500)
    /\ rm_params.rebalance_threshold = 500
    /\ ~lastCall.ret.should_rebalance

\* The sum over the four assets of |current weight - recommended weight|.
RECURSIVE TotalDeviation(_, _, _)
TotalDeviation(current, recommended, ws) ==
    IF ws = {} THEN 0
    ELSE LET w == CHOOSE x \in ws : TRUE
             d == current[w] - recommended[w]
         IN  (IF d < 0 THEN -d ELSE d) + TotalDeviation(current, recommended, ws \ {w})

\* The truncated mean of the samples' daily volatility, 5000 without samples.
MeanDailyVolatility(samples) ==
    IF Len(samples) = 0 THEN 5000
    ELSE CHOOSE m \in 0..10000 :
            LET total == IF Len(samples) = 1 THEN samples[1].daily_volatility
                         ELSE samples[1].daily_volatility + samples[2].daily_volatility
            IN  m * Len(samples) <= total /\ total < (m + 1) * Len(samples)

\* 1000 if the stable weight > 5000, else 8000 if the primary weight > 5000,
\* else 4000.
LiquidityTier(current) ==
    CASE current.usdc_percentage > 5000 -> 1000
      [] current.usdc_percentage <= 5000 /\ current.kale_percentage > 5000 -> 8000
      [] OTHER -> 4000

\* C23: assess_risk returns risk_score = (allocation_risk * 30
\* + volatility_score * 40 + correlation_risk * 20 + liquidity_risk * 10) / 100
\* truncated, with allocation_risk the sum of the four absolute deviations
\* from the profile's recommended allocation divided by 4, volatility_score
\* the truncated mean daily volatility (5000 without samples),
\* correlation_risk 3000 and liquidity_risk 1000 / 8000 / 4000 by tier.
C23_RiskScore ==
    [][ (IsCall(lastCall', "assess_risk") /\ Succeeded(lastCall')) =>
          \A profile \in Profiles :
             profile = lastCall'.profile =>
               LET current == lastCall'.args.current_allocation
                   samples == lastCall'.args.market_conditions
                   a == lastCall'.ret.assessment
                   allocation_risk ==
                       TotalDeviation(current, GetAllocationCall(profile).ret.allocation,
                                      Weights) \div 4
                   weighted == (allocation_risk * 30) + (MeanDailyVolatility(samples) * 40)
                                 + (3000 * 20) + (LiquidityTier(current) * 10)
               IN  /\ a.volatility_score = MeanDailyVolatility(samples)
                   /\ a.correlation_risk = 3000
                   /\ a.liquidity_risk = LiquidityTier(current)
                   /\ a.risk_score * 100 <= weighted
                   /\ weighted < (a.risk_score + 1) * 100
                   /\ a.recommended_allocation = GetAllocationCall(profile).ret.allocation
                   /\ Persisted' = Persisted ]_vars

\* An assessment against an updated allocation, with two samples whose mean
\* is truncated and both liquidity thresholds exceeded.
C23_Witness ==
    /\ IsCall(lastCall, "assess_risk") /\ Succeeded(lastCall)
    /\ lastCall.profile = "Moderate"
    /\ GetAllocationCall("Moderate").ret.allocation = Allocation(10000, 0, 0, 0)
    /\ lastCall.args.current_allocation = Allocation(6000, 0, 6000, 0)
    /\ Len(lastCall.args.market_conditions) = 2
    /\ lastCall.ret.assessment.volatility_score = 800
    /\ lastCall.ret.assessment.liquidity_risk = 1000


\* The target weights sum to exactly 10000 as a mathematical integer.
ValidTargets(target_allocations) ==
    TotalIs(SumValues(target_allocations, DOMAIN target_allocations), 10000)

\* C24: of two rebalance calls, the first succeeding at t1 and the second made
\* at t2 with t2 - t1 < rebalance_frequency, the second fails with
\* RebalanceTooSoon; a call with valid targets made once the window has
\* elapsed succeeds (executing or as a no-op).
C24_RebalanceGating ==
    [][ (IsCall(lastCall', "rebalance") /\ rb_initialized /\ rebalanced_at >= 0) =>
          /\ (now - rebalanced_at < rb_config.rebalance_frequency
                 => lastCall'.outcome = "RebalanceTooSoon")
          /\ ((now - rebalanced_at >= rb_config.rebalance_frequency
                  /\ ValidTargets(lastCall'.targets))
                 => Succeeded(lastCall')) ]_vars

\* Once the window since the latest successful rebalance has elapsed, a call
\* with valid targets succeeds.
RebalanceAfterWindow ==
    [][ (IsCall(lastCall', "rebalance") /\ rb_initialized /\ rebalanced_at >= 0
           /\ now - rebalanced_at >= rb_config.rebalance_frequency
           /\ ValidTargets(lastCall'.targets))
          => Succeeded(lastCall') ]_vars

\* A rebalance that executed at t1 and no initialize since: a call before
\* t1 + rebalance_frequency fails with RebalanceTooSoon.
RebalanceAfterExecution ==
    [][ (IsCall(lastCall', "rebalance") /\ rb_initialized /\ rebalanced_at >= 0
           /\ last_rebalance = rebalanced_at
           /\ now - rebalanced_at < rb_config.rebalance_frequency)
          => lastCall'.outcome = "RebalanceTooSoon" ]_vars

\* C25: rebalance fails with RebalanceTooSoon exactly when
\* now < last_rebalance + rebalance_frequency, so that a call at
\* last_rebalance + rebalance_frequency passes the gate and a call violating
\* both the frequency gate and the allocation-sum gate reports
\* RebalanceTooSoon.
C25_FrequencyGate ==
    [][ (IsCall(lastCall', "rebalance") /\ rb_initialized) =>
          (lastCall'.outcome = "RebalanceTooSoon"
             <=> now < last_rebalance + rb_config.rebalance_frequency) ]_vars

\* A call inside the window whose targets sum to 9000 was refused as too
\* soon, after a rebalance had stamped a positive time.
C25_Witness ==
    /\ IsCall(lastCall, "rebalance")
    /\ lastCall.outcome = "RebalanceTooSoon"
    /\ lastCall.targets = MapOf("BTC", 5000, "USDC", 4000)
    /\ last_rebalance > 0
    /\ lastCall.time < last_rebalance + rb_config.rebalance_frequency


\* A rebalance call on an initialized contract that passes the frequency gate.
PassesFrequencyGate ==
    /\ IsCall(lastCall', "rebalance")
    /\ rb_initialized
    /\ now >= last_rebalance + rb_config.rebalance_frequency

\* C26: a rebalance call that passes the frequency gate fails with
\* InvalidTargetAllocation exactly when the target weights, summed as
\* mathematical integers over all entries of the map, are not 10000; such a
\* call generates no orders and leaves last_rebalance as it was.
C26_TargetSumGate ==
    [][ PassesFrequencyGate =>
          /\ (lastCall'.outcome = "InvalidTargetAllocation"
                 <=> ~ValidTargets(lastCall'.targets))
          /\ (~ValidTargets(lastCall'.targets)
                 => lastCall'.events = << >> /\ last_rebalance' = last_rebalance) ]_vars

\* The same for the target maps whose sum fits 32 bits.
TargetSumGateWithin32Bits ==
    [][ (PassesFrequencyGate
           /\ ~OverflowsU32(SumValues(lastCall'.targets, DOMAIN lastCall'.targets))) =>
          /\ (lastCall'.outcome = "InvalidTargetAllocation"
                 <=> ~ValidTargets(lastCall'.targets))
          /\ (~ValidTargets(lastCall'.targets)
                 => lastCall'.events = << >> /\ last_rebalance' = last_rebalance) ]_vars


Assets == {"KALE", "BTC", "USDC", "XLM"}

\* The current percentage of an asset in a snapshot.
CurrentPercentage(portfolio, asset) ==
    CASE asset = "KALE" -> portfolio.kale_percentage
      [] asset = "BTC" -> portfolio.btc_percentage
      [] asset = "USDC" -> portfolio.usdc_percentage
      [] OTHER -> portfolio.xlm_percentage

\* Every one of the four assets is within 500 of its target percentage.
AllWithin500(portfolio, target_allocations) ==
    \A asset \in Assets :
        LET current == CurrentPercentage(portfolio, asset)
            target == GetOr(target_allocations, asset, 0)
        IN  current - target <= 500 /\ target - current <= 500

\* total value < min_rebalance_amount, the total counted in ValueUnit.
TotalBelow(total_value_usd, min_rebalance_amount) ==
    total_value_usd < (min_rebalance_amount + ValueUnit - 1) \div ValueUnit

\* The result of a call that did nothing.
IsNoOpResult(ret, portfolio) ==
    /\ ret.orders_executed = 0
    /\ ret.gas_used = 0
    /\ ret.slippage_incurred = 0
    /\ ret.total_value_before = portfolio.total_value_usd
    /\ ret.total_value_after = portfolio.total_value_usd

\* C27: a rebalance call that passes both gates returns a no-op success
\* (nothing executed, no gas, no slippage, total value before and after equal
\* to the snapshot's total) exactly when the snapshot total is below
\* min_rebalance_amount or every one of the four assets is within 500 of its
\* target percentage; otherwise the orders are generated and executed.
C27_NeedCheck ==
    [][ (PassesFrequencyGate /\ Succeeded(lastCall')) =>
          LET portfolio == get_portfolio_snapshot(lastCall'.prices)
              skip == \/ TotalBelow(portfolio.total_value_usd, rb_config.min_rebalance_amount)
                      \/ AllWithin500(portfolio, lastCall'.targets)
              orders == generate_rebalance_orders(portfolio, lastCall'.targets, lastCall'.prices)
          IN  /\ IsNoOpResult(lastCall'.ret, portfolio) <=> skip
              /\ skip => lastCall'.events = << >>
              /\ ~skip => /\ lastCall'.events = orders
                          /\ lastCall'.ret = execute_rebalance_orders(orders, rb_config, now) ]_vars

\* A no-op on targets exactly 500 away from the BTC and USDC percentages.
C27_Witness ==
    /\ IsCall(lastCall, "rebalance") /\ Succeeded(lastCall)
    /\ lastCall.targets = MapOf3("BTC", 9488, "USDC", 509, "XLM", 3)
    /\ lastCall.prices = << >>
    /\ get_portfolio_snapshot(lastCall.prices).btc_percentage = 9988
    /\ get_portfolio_snapshot(lastCall.prices).usdc_percentage = 9
    /\ lastCall.ret.orders_executed = 0
    /\ lastCall.ret.total_value_before = 215256000

\* The call that skips because the total is below the minimum, and the call
\* that executes at a deviation of 501.
BelowMinimumSkips ==
    /\ IsCall(lastCall, "rebalance") /\ Succeeded(lastCall)
    /\ lastCall.targets = MapOf("BTC", 5000, "ETH", 5000)
    /\ lastCall.ret.total_value_before = 2551
    /\ rb_config.min_rebalance_amount = 100000000

ExecutesAt501 ==
    /\ IsCall(lastCall, "rebalance") /\ Succeeded(lastCall)
    /\ lastCall.targets = MapOf3("BTC", 9487, "USDC", 510, "XLM", 3)
    /\ lastCall.prices = << >>
    /\ last_rebalance = lastCall.time
    /\ lastCall.time > 0


\* The mock balance, the default price and the supplied price of an asset.
Balance(asset) ==
    CASE asset = "KALE" -> KALE_BALANCE
      [] asset = "BTC" -> BTC_BALANCE
      [] asset = "USDC" -> USDC_BALANCE
      [] OTHER -> XLM_BALANCE

DefaultPrice(asset) ==
    CASE asset = "KALE" -> DEFAULT_KALE_PRICE
      [] asset = "BTC" -> DEFAULT_BTC_PRICE
      [] asset = "USDC" -> DEFAULT_USDC_PRICE
      [] OTHER -> DEFAULT_XLM_PRICE

PriceOf(current_prices, asset) == GetOr(current_prices, asset, DefaultPrice(asset))

\* The current USD value of an asset, in ValueUnit.
CurrentValue(current_prices, asset) == ValueUsd(Balance(asset), PriceOf(current_prices, asset))

\* total_value * target_bp / 10000 of an asset, as TargetValue gives it.
TargetValueOf(current_prices, target_allocations, asset) ==
    TargetValue(get_portfolio_snapshot(current_prices).total_value_usd,
                GetOr(target_allocations, asset, 0))

\* current value > target value, and current value < target value.
OverAllocated(current_prices, target_allocations, asset) ==
    CurrentValue(current_prices, asset) > TargetValueOf(current_prices, target_allocations, asset).whole

UnderAllocated(current_prices, target_allocations, asset) ==
    LET current == CurrentValue(current_prices, asset)
        target == TargetValueOf(current_prices, target_allocations, asset)
    IN  current < target.whole \/ (current = target.whole /\ target.rest > 0)

\* current value - target value of an asset, in the contract's units.
ExcessValue(current_prices, target_allocations, asset) ==
    LET target == TargetValueOf(current_prices, target_allocations, asset)
    IN  ((CurrentValue(current_prices, asset) - target.whole) * ValueUnit) - target.rest

\* The sell order the specification describes for an over-allocated asset.
IsSellOf(order, current_prices, target_allocations, asset) ==
    /\ order.from_asset = asset
    /\ order.amount = (ExcessValue(current_prices, target_allocations, asset)
                         * (10000000 \div PriceUnit)) \div PriceOf(current_prices, asset)
    /\ order.min_received = MulBp(ExcessValue(current_prices, target_allocations, asset), 9800)
    /\ order.priority \in 1..10

\* The orders of a sequence that sell an asset.
SellsOf(orders, asset) == { i \in 1..Len(orders) : orders[i].from_asset = asset }

\* A rebalance call with valid targets that generated and executed orders.
ExecutingRebalance ==
    /\ PassesFrequencyGate /\ Succeeded(lastCall')
    /\ ValidTargets(lastCall'.targets)
    /\ last_rebalance' = now
    /\ ~IsNoOpResult(lastCall'.ret, get_portfolio_snapshot(lastCall'.prices))

\* C28: order generation emits, for each of the four assets whose current
\* USD value exceeds its target value, one sell order from that asset with
\* amount = excess_value * PRICE_SCALE / price,
\* min_received = excess_value * 9800 / 10000 and a priority within 1..10, and
\* no sell order for an asset that is not over-allocated.
C28_SellOrders ==
    [][ ExecutingRebalance =>
          \A asset \in Assets :
             LET sells == SellsOf(lastCall'.events, asset)
             IN  IF OverAllocated(lastCall'.prices, lastCall'.targets, asset)
                 THEN /\ Cardinality(sells) = 1
                      /\ \A i \in sells :
                            IsSellOf(lastCall'.events[i], lastCall'.prices,
                                     lastCall'.targets, asset)
                 ELSE sells = {} ]_vars

\* What C28 says of KALE alone, and that nothing but KALE is ever sold.
KaleSellOrder ==
    [][ ExecutingRebalance =>
          LET sells == SellsOf(lastCall'.events, "KALE")
          IN  /\ IF OverAllocated(lastCall'.prices, lastCall'.targets, "KALE")
                 THEN /\ Cardinality(sells) = 1
                      /\ \A i \in sells :
                            IsSellOf(lastCall'.events[i], lastCall'.prices,
                                     lastCall'.targets, "KALE")
                 ELSE sells = {}
              /\ Len(lastCall'.events) = Cardinality(sells) ]_vars

\* The value the orders sell and the value they are guaranteed to buy, in the
\* contract's units.
RECURSIVE ValueSold(_, _, _)
ValueSold(orders, current_prices, target_allocations) ==
    IF orders = << >> THEN 0
    ELSE ExcessValue(current_prices, target_allocations, Head(orders).from_asset)
           + ValueSold(Tail(orders), current_prices, target_allocations)

RECURSIVE ValueBought(_)
ValueBought(orders) ==
    IF orders = << >> THEN 0 ELSE Head(orders).min_received + ValueBought(Tail(orders))

\* C29: the generated orders conserve the portfolio's value: the to_asset of
\* every order is an asset whose current value is below its target value, and
\* the total value sold equals the total value bought.
C29_OrdersConserveValue ==
    [][ ExecutingRebalance =>
          /\ \A i \in 1..Len(lastCall'.events) :
                UnderAllocated(lastCall'.prices, lastCall'.targets,
                               lastCall'.events[i].to_asset)
          /\ ValueSold(lastCall'.events, lastCall'.prices, lastCall'.targets)
                = ValueBought(lastCall'.events) ]_vars

\* Every order buys USDC for at least 98% of what it sells.
OrdersBuyUSDC ==
    [][ ExecutingRebalance =>
          \A i \in 1..Len(lastCall'.events) :
             /\ lastCall'.events[i].to_asset = "USDC"
             /\ lastCall'.events[i].min_received
                  = MulBp(ExcessValue(lastCall'.prices, lastCall'.targets,
                                      lastCall'.events[i].from_asset), 9800) ]_vars


\* The realized slippage and the cost of the first n orders, as the
\* trade-execution collaborator reports them.
RealizedSlippages(orders, n) == { calculate_actual_slippage(orders[i]) : i \in 1..n }

RECURSIVE TotalCost(_, _)
TotalCost(orders, n) ==
    IF n = 0 THEN 0 ELSE simulate_trade_execution(orders[n]) + TotalCost(orders, n - 1)

\* C30: on the executing path of rebalance, orders_executed is the minimum of
\* the number of generated orders and max_trades_per_rebalance,
\* slippage_incurred is the maximum realized slippage over the executed
\* orders, gas_used is the sum of their costs, and after the call
\* last_rebalance equals now.
C30_Execution ==
    [][ (PassesFrequencyGate /\ Succeeded(lastCall')
           /\ needs_rebalancing(rb_config, get_portfolio_snapshot(lastCall'.prices),
                                lastCall'.targets)) =>
          LET orders == lastCall'.events
              n == lastCall'.ret.orders_executed
          IN  /\ n <= Len(orders) /\ n <= rb_config.max_trades_per_rebalance
              /\ n = Len(orders) \/ n = rb_config.max_trades_per_rebalance
              /\ \A s \in RealizedSlippages(orders, n) : s <= lastCall'.ret.slippage_incurred
              /\ IF n = 0 THEN lastCall'.ret.slippage_incurred = 0
                 ELSE lastCall'.ret.slippage_incurred \in RealizedSlippages(orders, n)
              /\ lastCall'.ret.gas_used = TotalCost(orders, n)
              /\ last_rebalance' = now ]_vars

\* An executed order at a positive time: one order generated and executed
\* under a limit of 5 trades.
C30_Witness ==
    /\ IsCall(lastCall, "rebalance") /\ Succeeded(lastCall)
    /\ Len(lastCall.events) = 1
    /\ rb_config.max_trades_per_rebalance = 5
    /\ lastCall.ret.orders_executed = 1
    /\ lastCall.ret.gas_used = TRADE_GAS
    /\ lastCall.ret.slippage_incurred = 100
    /\ lastCall.time > 0
    /\ last_rebalance = lastCall.time

\* An order generated and none executed under a limit of 0 trades, and an
\* executing call that generated no order.
LimitOfZeroTrades ==
    /\ IsCall(lastCall, "rebalance") /\ Succeeded(lastCall)
    /\ Len(lastCall.events) = 1
    /\ rb_config.max_trades_per_rebalance = 0
    /\ lastCall.ret.orders_executed = 0

ExecutesNoOrder ==
    /\ IsCall(lastCall, "rebalance") /\ Succeeded(lastCall)
    /\ lastCall.events = << >>
    /\ lastCall.ret.total_value_before = 0
    /\ last_rebalance = lastCall.time
    /\ lastCall.time > 0


\* The balance stored for a participant, 0 while no account is stored.
StoredBalance(accts, p) == IF p \in DOMAIN accts THEN accts[p].balance ELSE 0

\* A successful deposit or withdraw.
LedgerCall(c) == (IsCall(c, "deposit") \/ IsCall(c, "withdraw")) /\ Succeeded(c)

\* A call of q made before this step and the same call made after it: the
\* same outcome and result, the same account stored for q, the account of p
\* as the step left it, and the same change of TotalLocked.
SameEitherSide(before, after, p, q) ==
    /\ after.outcome = before.outcome
    /\ after.ret = before.ret
    /\ Succeeded(before) =>
          /\ after.st.accounts[q] = before.st.accounts[q]
          /\ p \in DOMAIN after.st.accounts /\ after.st.accounts[p] = accounts'[p]
          /\ after.st.total_locked - total_locked' = before.st.total_locked - total_locked

\* C31: under any interleaving of atomic deposit and withdraw calls of
\* several participants, the new_balance a successful call of p returns is
\* the balance p's previous successful call stored plus (deposit) or minus
\* (withdraw) the amount, whatever calls of others came between, and the
\* calls of distinct participants commute on the accounts and TotalLocked.
C31_PerParticipantOrder ==
    [][ LedgerCall(lastCall') =>
          LET p == lastCall'.user
              amount == lastCall'.amount
          IN  /\ lastCall'.ret.new_balance
                   = IF IsCall(lastCall', "deposit") THEN StoredBalance(accounts, p) + amount
                     ELSE StoredBalance(accounts, p) - amount
              /\ StoredBalance(accounts', p) = lastCall'.ret.new_balance
              /\ OthersUnchanged(p)
              /\ \A q \in Users \ {p}, b \in Amounts :
                    /\ SameEitherSide(WithdrawCall(q, b, TRUE), WithdrawCall(q, b, TRUE)', p, q)
                    /\ \A risk_profile \in InputProfiles, referral \in Referrals :
                          SameEitherSide(
                              DepositCall(q, b, risk_profile, referral, TRUE, TRUE),
                              DepositCall(q, b, risk_profile, referral, TRUE, TRUE)', p, q) ]_vars

\* A call of u1 that succeeded while u2 holds a deposited balance.
C31_Witness ==
    /\ LedgerCall(lastCall)
    /\ lastCall.user = "u1"
    /\ lastCall.amount > 0
    /\ "u2" \in DOMAIN accounts /\ accounts["u2"].balance > 0
    /\ accounts["u1"].balance = lastCall.ret.new_balance


\* C32: in every reachable state the settlement tokens in the fund's custody
\* (deposit amounts received, less referral bonuses paid out, less net
\* amounts paid on withdrawals) are at least TotalLocked, so that the recorded
\* balances are fully backed.
C32_FullyBacked == custody >= total_locked


\* A deposit or withdraw that pays no referral bonus and moves a non-negative
\* amount does not lower custody against TotalLocked.
BackedApartFromBonuses ==
    [][ (LedgerCall(lastCall') /\ lastCall'.ret.referral_bonus <= 0 /\ lastCall'.amount >= 0)
          => custody' - total_locked' >= custody - total_locked ]_vars


\* C33: a successful withdraw(p, amount) never increases p's balance or
\* TotalLocked and never decreases total_withdrawals, for every signed amount
\* that passes the balance check, zero and negative amounts included.
C33_WithdrawMonotone ==
    [][ (IsCall(lastCall', "withdraw") /\ Succeeded(lastCall')) =>
          LET p == lastCall'.user
          IN  /\ StoredBalance(accounts', p) <= StoredBalance(accounts, p)
              /\ total_locked' <= total_locked
              /\ accounts'[p].total_withdrawals >= get_user_account(p).total_withdrawals ]_vars

\* The same for the amounts that are not negative.
WithdrawMonotoneFromZero ==
    [][ (IsCall(lastCall', "withdraw") /\ Succeeded(lastCall') /\ lastCall'.amount >= 0) =>
          LET p == lastCall'.user
          IN  /\ StoredBalance(accounts', p) <= StoredBalance(accounts, p)
              /\ total_locked' <= total_locked
              /\ accounts'[p].total_withdrawals >= get_user_account(p).total_withdrawals ]_vars

\* A withdrawal of a negative amount that transferred nothing and left a
\* positive balance.
NegativeWithdrawCredits ==
    /\ IsCall(lastCall, "withdraw") /\ Succeeded(lastCall)
    /\ lastCall.amount < 0
    /\ lastCall.ret.net_amount = 0
    /\ accounts[lastCall.user].balance > 0
    /\ total_locked > 0


\* C34: with non-decreasing ledger time a participant's locked_until never
\* decreases across initialize, update_config, deposit and withdraw calls:
\* each successful deposit locks the whole balance until now + lock_period,
\* and a withdrawal made before that time is charged the early-withdrawal
\* penalty on its full amount.
C34_LockNeverShortens ==
    [][ /\ \A u \in DOMAIN accounts :
              u \in DOMAIN accounts' /\ accounts'[u].locked_until >= accounts[u].locked_until
        /\ (IsCall(lastCall', "deposit") /\ Succeeded(lastCall'))
              => accounts'[lastCall'.user].locked_until = now + config.lock_period
        /\ (IsCall(lastCall', "withdraw") /\ Succeeded(lastCall')
               /\ now < get_user_account(lastCall'.user).locked_until)
              => lastCall'.ret.penalty
                   = BpShare(lastCall'.amount, config.early_withdrawal_penalty) ]_vars

\* Deposits at times 0 and 1 under a lock period of 2, and a withdrawal at
\* time 2, when the first lock has expired, charged the penalty on its full
\* amount.
RelockedWithdrawal ==
    /\ IsCall(lastCall, "withdraw") /\ Succeeded(lastCall)
    /\ lastCall.time = 2
    /\ config.lock_period = 2
    /\ lastCall.amount = 5000000
    /\ lastCall.ret.penalty = 25000
    /\ accounts[lastCall.user].last_deposit = 1
    /\ accounts[lastCall.user].total_deposits = 10000000


\* A rebalance call that passed both gates and the need check.
StampingRebalance ==
    /\ PassesFrequencyGate /\ Succeeded(lastCall')
    /\ needs_rebalancing(rb_config, get_portfolio_snapshot(lastCall'.prices), lastCall'.targets)

\* C35: last_rebalance is written only by a rebalance call that passes both
\* gates and the need check, and is then that call's timestamp; a failing
\* rebalance, a no-op rebalance and update_config leave it unchanged, and with
\* non-decreasing ledger time it never decreases.
C35_StampOnlyByRebalance ==
    [][ /\ last_rebalance' # last_rebalance => StampingRebalance
        /\ StampingRebalance => last_rebalance' = now
        /\ last_rebalance' >= last_rebalance ]_vars

\* The same for every step but initialize.
StampApartFromInitialize ==
    [][ ~IsCall(lastCall', "rb_initialize") =>
          /\ last_rebalance' # last_rebalance => StampingRebalance
          /\ StampingRebalance => last_rebalance' = now
          /\ last_rebalance' >= last_rebalance ]_vars


\* The index of the last entry of a list for the asset of entry i.
LastFor(volatility_data, i) ==
    CHOOSE j \in 1..Len(volatility_data) :
        /\ volatility_data[j].asset = volatility_data[i].asset
        /\ \A k \in (j + 1)..Len(volatility_data) :
              volatility_data[k].asset # volatility_data[i].asset

\* The storage keys of the three allocations.
AllocationKeys == { AllocationKey(profile) : profile \in Profiles }

\* What a successful update_volatility leaves: the allocations get_allocation
\* returns, RiskParameters and admin as before, and for each supplied asset
\* the last record supplied for it.
OnlyVolatilityChanged(volatility_data) ==
    /\ \A profile \in Profiles :
          /\ GetAllocationCall(profile)'.outcome = GetAllocationCall(profile).outcome
          /\ GetAllocationCall(profile)'.ret = GetAllocationCall(profile).ret
    /\ rm_params' = rm_params
    /\ rm_admin' = rm_admin
    /\ \A i \in 1..Len(volatility_data) :
          /\ volatility_data[i].asset \in DOMAIN rm_store'
          /\ rm_store'[volatility_data[i].asset]
               = StoredVolatility(volatility_data[LastFor(volatility_data, i)])

\* C36: update_volatility changes only volatility records: for any list of
\* VolatilityData with any asset identifiers, after a successful call
\* get_allocation returns for each of the three profiles the allocation it
\* returned before, RiskParameters and admin are unchanged, and the record of
\* each supplied asset is the last entry supplied for that asset.
C36_OnlyVolatilityChanged ==
    [][ (IsCall(lastCall', "update_volatility") /\ Succeeded(lastCall'))
          => OnlyVolatilityChanged(lastCall'.args) ]_vars

\* The same for the lists that name no storage key of an allocation.
VolatilityOfOtherAssets ==
    [][ (IsCall(lastCall', "update_volatility") /\ Succeeded(lastCall')
           /\ \A i \in 1..Len(lastCall'.args) : lastCall'.args[i].asset \notin AllocationKeys)
          => OnlyVolatilityChanged(lastCall'.args) ]_vars

\* Two records for one asset in one call, the second kept.
LastRecordKept ==
    /\ IsCall(lastCall, "update_volatility") /\ Succeeded(lastCall)
    /\ Len(lastCall.args) = 2
    /\ rm_store["KALE"].value.daily_volatility = 1200


\* p is value * 10000 / total truncated, for value >= 0 and total > 0:
\* p * total <= value * 10000 < (p + 1) * total, the products taken in units
\* of 10000.
IsPercentage(p, value, total) ==
    LET tq == total \div 10000
        tr == total % 10000
    IN  /\ p \in 0..10000
        /\ (p * tq) + (((p * tr) + 9999) \div 10000) <= value
        /\ \/ ((p + 1) * tq) + (((p + 1) * tr) \div 10000) > value
           \/ /\ ((p + 1) * tq) + (((p + 1) * tr) \div 10000) = value
              /\ ((p + 1) * tr) % 10000 > 0

\* balance * price / 10^7 of an asset, in ValueUnit: the balances are whole
\* millions and a price counts PriceUnit.
UsdValue(current_prices, asset) == (Balance(asset) \div 1000000) * PriceOf(current_prices, asset)

RECURSIVE SumOver(_, _, _)
SumOver(f(_, _), x, S) ==
    IF S = {} THEN 0
    ELSE LET a == CHOOSE y \in S : TRUE IN f(x, a) + SumOver(f, x, S \ {a})

SnapshotOfNothing ==
    /\ IsCall(lastCall, "get_portfolio_snapshot")
    /\ lastCall.snapshot.total_value_usd = 0
    /\ lastCall.snapshot.btc_percentage = 0

SnapshotBelowZero ==
    /\ IsCall(lastCall, "get_portfolio_snapshot")
    /\ lastCall.snapshot.total_value_usd < 0
    /\ lastCall.snapshot.kale_percentage = 0

SnapshotAtDefaults ==
    /\ IsCall(lastCall, "get_portfolio_snapshot")
    /\ lastCall.prices = << >>
    /\ lastCall.snapshot.total_value_usd = 215256000
    /\ lastCall.snapshot.btc_percentage = 9988


\* The four weights of an allocation lie in the basis-point range.
WeightsInRange(a) ==
    /\ a.kale_percentage \in 0..10000 /\ a.btc_percentage \in 0..10000
    /\ a.usdc_percentage \in 0..10000 /\ a.xlm_percentage \in 0..10000

RECURSIVE SamplesInRange(_)
SamplesInRange(samples) ==
    samples = << >>
      \/ (Head(samples).daily_volatility \in 0..10000 /\ SamplesInRange(Tail(samples)))

\* The four scores of an assessment lie within the score scale.
ScoresInScale(a) ==
    /\ a.risk_score \in 0..10000 /\ a.volatility_score \in 0..10000
    /\ a.correlation_risk \in 0..10000 /\ a.liquidity_risk \in 0..10000

\* An assess_risk call with weights and daily volatilities in 0..10000.
AssessedInRange(c) ==
    /\ IsCall(c, "assess_risk") /\ Succeeded(c)
    /\ WeightsInRange(c.args.current_allocation)
    /\ SamplesInRange(c.args.market_conditions)

\* C38: for every current_allocation whose four weights each lie in 0..10000
\* and every list of samples whose daily volatility lies in 0..10000,
\* assess_risk returns risk_score, volatility_score, correlation_risk and
\* liquidity_risk within 0..10000 and recommended_allocation equal to
\* get_allocation(profile), and changes no persisted state.
C38_ScoresInScale ==
    [][ AssessedInRange(lastCall') =>
          \A profile \in Profiles :
             profile = lastCall'.profile =>
               /\ ScoresInScale(lastCall'.ret.assessment)
               /\ lastCall'.ret.assessment.recommended_allocation
                     = GetAllocationCall(profile).ret.allocation
               /\ Persisted' = Persisted ]_vars

\* What holds in every build: the scores are in scale whenever the
\* recommended weights are in 0..10000, and the other two parts always.
ScoresInScaleOfRangedWeights ==
    [][ AssessedInRange(lastCall') =>
          \A profile \in Profiles :
             profile = lastCall'.profile =>
               /\ WeightsInRange(GetAllocationCall(profile).ret.allocation)
                     => ScoresInScale(lastCall'.ret.assessment)
               /\ lastCall'.ret.assessment.recommended_allocation
                     = GetAllocationCall(profile).ret.allocation
               /\ Persisted' = Persisted ]_vars

\* An assessment against weights stored by a wrapped sum.
AssessedAgainstWrappedWeights ==
    /\ AssessedInRange(lastCall)
    /\ lastCall.profile = "Conservative"
    /\ lastCall.args.current_allocation = Allocation(6000, 0, 6000, 0)
    /\ lastCall.args.market_conditions = << >>
    /\ GetAllocationCall("Conservative").ret.allocation
         = Allocation(2147483647, 2147483647, 10002, 0)
    /\ lastCall.ret.assessment.risk_score > 10000

\* An assessment whose deviations wrap into the scale.
AssessedWithWrappedDeviation ==
    /\ AssessedInRange(lastCall)
    /\ lastCall.args.current_allocation = Allocation(4800, 3600, 1100, 500)
    /\ ~WeightsInRange(lastCall.ret.assessment.recommended_allocation)
    /\ ScoresInScale(lastCall.ret.assessment)


\* A u32 in limbs is at most 10000.
AtMost10000(t) == t.hi = 0 /\ t.lo <= 10000

\* C39: calculate_price_impact(asset, trade_amount, total_liquidity) returns
\* trade_amount * 10000 / total_liquidity capped at 10000: the result lies in
\* 0..10000 for every signed trade_amount and total_liquidity, and is 10000
\* when total_liquidity is 0.
C39_PriceImpact ==
    (IsCall(lastCall, "calculate_price_impact") /\ Succeeded(lastCall)) =>
        /\ AtMost10000(lastCall.impact)
        /\ lastCall.total_liquidity = 0 => TotalIs(lastCall.impact, 10000)

\* What holds: without liquidity the impact is 10000, and for a trade that
\* is not negative against positive liquidity, with a product in range, it
\* is the truncated quotient capped at 10000.
ImpactOfUnsignedTrade ==
    IsCall(lastCall, "calculate_price_impact") =>
        /\ lastCall.total_liquidity = 0 =>
              Succeeded(lastCall) /\ TotalIs(lastCall.impact, 10000)
        /\ (lastCall.trade_amount >= 0 /\ lastCall.total_liquidity > 0
               /\ FitsI(lastCall.trade_amount * 10000)) =>
              /\ Succeeded(lastCall)
              /\ AtMost10000(lastCall.impact)
              /\ \/ /\ lastCall.impact.lo = 10000
                    /\ lastCall.trade_amount * 10000 >= 10000 * lastCall.total_liquidity
                 \/ /\ lastCall.impact.lo * lastCall.total_liquidity
                         <= lastCall.trade_amount * 10000
                    /\ lastCall.trade_amount * 10000
                         < (lastCall.impact.lo + 1) * lastCall.total_liquidity

\* A negative impact returned as a u32.
NegativeImpactReturned ==
    /\ IsCall(lastCall, "calculate_price_impact") /\ Succeeded(lastCall)
    /\ lastCall.trade_amount = -1
    /\ lastCall.total_liquidity = 10000
    /\ lastCall.impact = [hi |-> 65535, lo |-> 65535]

\* A wrapped product returned as an impact below the quotient.
WrappedImpactReturned ==
    /\ IsCall(lastCall, "calculate_price_impact") /\ Succeeded(lastCall)
    /\ lastCall.trade_amount = MaxI
    /\ lastCall.total_liquidity = 1
    /\ ~TotalIs(lastCall.impact, 10000)

\* The one division that fails in every build.
ImpactDivisionFails ==
    /\ IsCall(lastCall, "calculate_price_impact")
    /\ lastCall.total_liquidity = -1
    /\ lastCall.trade_amount = (MaxI \div 16) + 1
    /\ lastCall.outcome = "ArithmeticOverflow"

====
